---- MODULE Spec2Model ----
(***************************************************************************)
(* The OAuth 2.1 / PKCE authorization core of the remote Spotify MCP       *)
(* server: OAuthProvider (oauth.ts), the auth store and the /mcp bearer    *)
(* middleware.  Time is counted in seconds (Date.now() / 1000): the     *)
(* timeouts of the source, written there in milliseconds, are the same     *)
(* durations here, and the JWT claims iat and exp are seconds already.     *)
(* Every handler is split exactly at the awaits where it is suspended      *)
(* while it holds values read from the shared maps.                        *)
(***************************************************************************)
EXTENDS Integers, Sequences, FiniteSets, Bags, TLC

VARIABLES
    now,                    \* Date.now(), in seconds
    pendingAuthorizations,  \* Map<authKey, PendingAuthorization>
    timers,                 \* setTimeout registrations: authKey -> due time
    authorizationCodes,     \* Map<code, AuthorizationCode>
    refreshTokens,          \* Map<refreshTokenId, RefreshTokenData>
    authMap,                \* auth-store Map, in insertion order
    currentAuthInfo,        \* auth-store single slot
    tasks,                  \* handlers suspended at an await
    rand,                   \* how many values each randomBytes(32) / uuidv4() use has drawn
    ticks,                  \* how often the clock has advanced
    exchanged,              \* history: the codes a token exchange has answered 200 for
    denied,                 \* history: the handles a callback has reported an error for
    transports,             \* remote-server Map<sessionId, transport>
    requestCounts,          \* rate limiter Map<ip, {count, resetTime}>
    admitted,               \* history: per ip, how many requests the limiter let pass at each time
    last                    \* the step just taken: what it was asked and what it answered

vars == <<now, pendingAuthorizations, timers, authorizationCodes, refreshTokens,
          authMap, currentAuthInfo, tasks, rand, ticks, exchanged, denied,
          transports, requestCounts, admitted, last>>

\* ------------------------------------------------------------------ bounds
MaxAuth == 2
MaxTasks == 2
MaxTicks == 2
\* A code needs a pending authorization and a refresh-token record a code; the
\* caps on the draws of randomBytes follow the cap on authorizations.
MaxSessions == 2
MaxCodes == MaxAuth
MaxRefresh == MaxAuth

\* --------------------------------------------------------------- constants
AUTHORIZATION_CODE_TIMEOUT == 10 * 60
REFRESH_TOKEN_TIMEOUT == 30 * 24 * 60 * 60
ACCESS_TOKEN_LIFETIME == 60 * 60
EXPIRES_IN == 3600

Missing == ""
\* null of the auth store, as an auth info without user and tokens
None == [userId |-> Missing, spotifyAccessToken |-> Missing, spotifyRefreshToken |-> Missing]

\* ------------------------------------------------------- characters, URLs
LowerAlpha == <<"a","b","c","d","e","f","g","h","i","j","k","l","m",
                "n","o","p","q","r","s","t","u","v","w","x","y","z">>
UpperAlpha == <<"A","B","C","D","E","F","G","H","I","J","K","L","M",
                "N","O","P","Q","R","S","T","U","V","W","X","Y","Z">>
Digits == {"0","1","2","3","4","5","6","7","8","9"}

Range(f) == {f[i] : i \in DOMAIN f}

IsAlpha(c) == c \in Range(LowerAlpha) \cup Range(UpperAlpha)

ToLower(c) ==
    IF c \in Range(UpperAlpha)
    THEN LowerAlpha[CHOOSE i \in DOMAIN UpperAlpha : UpperAlpha[i] = c]
    ELSE c

LowerAll(s) == [i \in DOMAIN s |-> ToLower(s[i])]

\* /^[a-zA-Z][a-zA-Z0-9+.-]*:$/ applied to protocol = scheme \o <<":">>
IsSchemeChar(c) == IsAlpha(c) \/ c \in Digits \/ c \in {"+", ".", "-"}

CustomSchemeRegex(protocol) ==
    /\ Len(protocol) >= 2
    /\ IsAlpha(protocol[1])
    /\ protocol[Len(protocol)] = ":"
    /\ \A i \in 2..(Len(protocol) - 1) : IsSchemeChar(protocol[i])

\* Index of the first element of s at or after position from that is in set,
\* Len(s) + 1 when there is none.
RECURSIVE FirstIn(_, _, _)
FirstIn(s, from, set) ==
    IF from > Len(s) THEN Len(s) + 1
    ELSE IF s[from] \in set THEN from
    ELSE FirstIn(s, from + 1, set)

RECURSIVE SkipAll(_, _, _)
SkipAll(s, from, set) ==
    IF from > Len(s) THEN from
    ELSE IF s[from] \in set THEN SkipAll(s, from + 1, set)
    ELSE from

RECURSIVE LastIndexOf(_, _, _)
LastIndexOf(s, upto, c) ==
    IF upto < 1 THEN 0
    ELSE IF s[upto] = c THEN upto
    ELSE LastIndexOf(s, upto - 1, c)

SpecialSchemes == { <<"h","t","t","p">>, <<"h","t","t","p","s">>, <<"f","t","p">>,
                    <<"w","s">>, <<"w","s","s">> }

InvalidUrl == [ok |-> FALSE, protocol |-> <<>>, hostname |-> <<>>]

\* new URL(input) with no base: the scheme, and the host of the authority.
ParseUrl(input) ==
    LET colon == FirstIn(input, 1, {":"})
        scheme == LowerAll(SubSeq(input, 1, colon - 1))
        wellFormed == /\ colon <= Len(input)
                      /\ colon >= 2
                      /\ IsAlpha(input[1])
                      /\ \A i \in 2..(colon - 1) : IsSchemeChar(input[i])
        special == scheme \in SpecialSchemes
        hasAuthority == /\ colon + 2 <= Len(input)
                        /\ input[colon + 1] = "/"
                        /\ input[colon + 2] = "/"
        start == IF special THEN SkipAll(input, colon + 1, {"/", "\\"})
                 ELSE colon + 3
        stop == FirstIn(input, start,
                        IF special THEN {"/", "\\", "?", "#"} ELSE {"/", "?", "#"})
        authority == SubSeq(input, start, stop - 1)
        at == LastIndexOf(authority, Len(authority), "@")
        hostport == SubSeq(authority, at + 1, Len(authority))
        portAt == FirstIn(hostport, 1, {":"})
        host == SubSeq(hostport, 1, portAt - 1)
        hostname == IF special THEN LowerAll(host) ELSE host
    IN  IF ~wellFormed THEN InvalidUrl
        ELSE IF special
             THEN IF hostname = <<>> THEN InvalidUrl
                  ELSE [ok |-> TRUE, protocol |-> scheme \o <<":">>, hostname |-> hostname]
        ELSE IF hasAuthority
             THEN [ok |-> TRUE, protocol |-> scheme \o <<":">>, hostname |-> hostname]
        ELSE [ok |-> TRUE, protocol |-> scheme \o <<":">>, hostname |-> <<>>]

HttpsProtocol == <<"h","t","t","p","s",":">>
HttpProtocol == <<"h","t","t","p",":">>
Localhost == <<"l","o","c","a","l","h","o","s","t">>
Loopback == <<"1","2","7",".","0",".","0",".","1">>

\* The redirect URI validation shared by /oauth/authorize and /oauth/register:
\* TRUE when the try block completes without throwing.
RedirectUriAccepted(uri) ==
    LET url == ParseUrl(uri)
    IN  IF ~url.ok THEN FALSE
        ELSE IF url.protocol = HttpsProtocol THEN TRUE
        ELSE IF url.protocol = HttpProtocol /\ url.hostname \in {Localhost, Loopback} THEN TRUE
        ELSE IF CustomSchemeRegex(url.protocol) THEN TRUE
        ELSE FALSE

\* ------------------------------------------------------------------- maps
EmptyMap == <<>>
Has(m, k) == k \in DOMAIN m
Put(m, k, v) == [x \in (DOMAIN m) \cup {k} |-> IF x = k THEN v ELSE m[x]]
Delete(m, k) == [x \in (DOMAIN m) \ {k} |-> m[x]]

\* ------------------------------------------------------------ PKCE, JWT
Verifiers == {"v1", "v2"}

\* createHash("sha256").update(verifier).digest("base64url")
Sha256Base64Url(input) ==
    CASE input = "v1" -> "O_wmlZTvZJIo6adLqwDwQu_JHVrMb77jGjgugNQjiP4"
      [] input = "v2" -> "-wTctpcOTD0Yc95R_VpQ17tGszgxE2AmZcNQ7EC1-ZA"

generateCodeChallenge(verifier) == Sha256Base64Url(verifier)

JWT_SECRET == "your-secret-key-change-in-production"
OAUTH_ISSUER == "http://localhost:3000"
AUDIENCE == "spotify-mcp-server"

\* new SignJWT({...}).setIssuedAt().setExpirationTime("1h")
\*   .setAudience(...).setIssuer(...).sign(jwtSecret)
SignJWT(userId, spotifyTokens, key, issuer, at) ==
    [sub |-> userId,
     spotify_access_token |-> spotifyTokens.accessToken,
     spotify_refresh_token |-> spotifyTokens.refreshToken,
     iat |-> at,
     exp |-> at + ACCESS_TOKEN_LIFETIME,
     aud |-> AUDIENCE,
     iss |-> issuer,
     key |-> key]

createAccessToken(userId, spotifyTokens) ==
    SignJWT(userId, spotifyTokens, JWT_SECRET, OAUTH_ISSUER, now)

\* -------------------------------------------------------------- responses
\* last = [op, key, status, error, body]: the operation, the handle, code or
\* refresh token the request named, and the response (status 0: none yet).
Step(op, key, status, error, body) ==
    [op |-> op, key |-> key, status |-> status, error |-> error, body |-> body]
NoBody == <<>>
NoResponse == [status |-> 0, error |-> ""]
Error(status, error) == [status |-> status, error |-> error]

\* --------------------------------------------------------------- requests
CLIENT_ID == "mcp-public-client"
HttpsCb == <<"h","t","t","p","s",":","/","/","a",".","i","o","/","c","b">>
NoScheme == <<"/","c","b">>

Spawn(t) == tasks (+) SetToBag({t})
Finish(t) == tasks (-) SetToBag({t})
Suspended(t) == BagIn(t, tasks)
CanSuspend == BagCardinality(tasks) < MaxTasks

\* ------------------------------------------------- GET /oauth/authorize
AuthorizeCheckAnyMethod(req) ==
    IF req.client_id = Missing \/ req.redirect_uri = <<>> \/ req.code_challenge = Missing
    THEN [status |-> 400, error |-> "invalid_request"]
    ELSE IF req.response_type # "code"
    THEN [status |-> 400, error |-> "unsupported_response_type"]
    ELSE IF ~RedirectUriAccepted(req.redirect_uri)
    THEN [status |-> 400, error |-> "invalid_request"]
    ELSE [status |-> 0, error |-> ""]
AuthorizeCheck(req) ==
    IF req.client_id = Missing \/ req.redirect_uri = <<>> \/ req.code_challenge = Missing
    THEN Error(400, "invalid_request")
    ELSE IF req.response_type # "code"
    THEN Error(400, "unsupported_response_type")
    ELSE IF req.code_challenge_method # "S256"
    THEN Error(400, "invalid_request")
    ELSE IF ~RedirectUriAccepted(req.redirect_uri)
    THEN Error(400, "invalid_request")
    ELSE NoResponse

\* `${authKey}:${spotifyState}`
Colon == 0
combinedStateOfNextAttempt(authKey, spotifyState) ==
    <<authKey + 2, Colon, spotifyState + 2>>
combinedState(authKey, spotifyState) == <<authKey, Colon, spotifyState>>

\* clearAuth() of the auth store
clearAuthCurrentOnly ==
    /\ authMap' = authMap
    /\ currentAuthInfo' = None
clearAuth ==
    /\ authMap' = <<>>
    /\ currentAuthInfo' = None

\* The handler awaits only import('./auth-store.js'), a module the server has
\* loaded at start-up: it resumes in the same turn of the event loop, so no
\* other handler runs between the store of the pending entry and clearAuth().
Authorize(req) ==
    LET res == AuthorizeCheck(req)
        spotifyState == 2 * rand.authorize + 1
        authKey == 2 * rand.authorize + 2
    IN  IF res # NoResponse
        THEN /\ last' = Step("authorize", 0, res.status, res.error, NoBody)
             /\ UNCHANGED <<transports, requestCounts, admitted>>
             /\ UNCHANGED <<now, pendingAuthorizations, timers, authorizationCodes,
                            refreshTokens, authMap, currentAuthInfo, tasks, rand,
                            ticks, exchanged, denied>>
        ELSE /\ rand.authorize < MaxAuth
             /\ pendingAuthorizations' = Put(pendingAuthorizations, authKey,
                    [clientId |-> req.client_id,
                     redirectUri |-> req.redirect_uri,
                     codeChallenge |-> req.code_challenge,
                     codeChallengeMethod |-> req.code_challenge_method,
                     state |-> req.state,
                     scope |-> req.scope,
                     spotifyState |-> spotifyState])
             /\ timers' = timers \cup {[authKey |-> authKey,
                                        due |-> now + AUTHORIZATION_CODE_TIMEOUT]}
             /\ rand' = [rand EXCEPT !.authorize = @ + 1]
             /\ clearAuth
             /\ last' = Step("authorize", authKey, 302, "",
                             [location |-> "https://accounts.spotify.com/authorize",
                              state |-> combinedState(authKey, spotifyState)])
             /\ UNCHANGED <<transports, requestCounts, admitted>>
             /\ UNCHANGED <<now, authorizationCodes, refreshTokens, tasks, ticks,
                            exchanged, denied>>

\* setTimeout(() => this.pendingAuthorizations.delete(authKey), TIMEOUT)
PendingTimeoutKeeps(timer) ==
    /\ timer \in timers
    /\ now >= timer.due
    /\ pendingAuthorizations' = pendingAuthorizations
    /\ timers' = timers \ {timer}
    /\ last' = Step("timer", timer.authKey, 0, "", NoBody)
    /\ UNCHANGED <<transports, requestCounts, admitted>>
    /\ UNCHANGED <<now, authorizationCodes, refreshTokens, authMap, currentAuthInfo,
                   tasks, rand, ticks, exchanged, denied>>
PendingTimeout(timer) ==
    /\ timer \in timers
    /\ now >= timer.due
    /\ pendingAuthorizations' = Delete(pendingAuthorizations, timer.authKey)
    /\ timers' = timers \ {timer}
    /\ last' = Step("timer", timer.authKey, 0, "", NoBody)
    /\ UNCHANGED <<transports, requestCounts, admitted>>
    /\ UNCHANGED <<now, authorizationCodes, refreshTokens, authMap, currentAuthInfo,
                   tasks, rand, ticks, exchanged, denied>>

\* ------------------------------------------------------- GET /callback
Users == {"u1", "u2"}

\* What Spotify answers for one of its own authorization codes: the token
\* pair of /api/token and the id of /v1/me.
SpotifyAnswer(code) ==
    CASE code = "sc1" -> [id |-> "u1", access_token |-> "at1", refresh_token |-> "rt1"]
      [] code = "sc2" -> [id |-> "u2", access_token |-> "at2", refresh_token |-> "rt2"]

UpstreamOutcomes == {"ok", "exchange_failed", "userinfo_failed"}

\* the requests a callback has sent upstream when it ends with outcome:
\* fetch of /api/token in exchangeSpotifyCode, then fetch of /v1/me
UpstreamCallsRetried(outcome) ==
    IF outcome = "exchange_failed" THEN <<"token", "token">>
    ELSE IF outcome = "userinfo_failed" THEN <<"token", "me", "me">>
    ELSE <<"token", "me">>
UpstreamCalls(outcome) ==
    IF outcome = "exchange_failed" THEN <<"token">> ELSE <<"token", "me">>

\* (state as string).split(":"): the segments between the separators.  A
\* state is a sequence of hex strings (one number each) and ":" (Colon).
RECURSIVE Split(_)
Split(state) ==
    LET i == FirstIn(state, 1, {Colon})
    IN  IF i > Len(state) THEN <<state>>
        ELSE <<SubSeq(state, 1, i - 1)>> \o Split(SubSeq(state, i + 1, Len(state)))

\* const [authKey, spotifyState] = parts: a segment that is one hex string is
\* that string; 0 stands for undefined and for a string that is no key.
Field(parts, i) ==
    IF i <= Len(parts) /\ Len(parts[i]) = 1 THEN parts[i][1] ELSE 0

CallbackCheckHandleOnly(req) ==
    IF req.error # Missing
    THEN Error(400, "access_denied")
    ELSE IF req.code = Missing \/ req.state = <<>>
    THEN Error(400, "invalid_request")
    ELSE LET authKey == Field(Split(req.state), 1)
         IN  IF ~Has(pendingAuthorizations, authKey)
             THEN Error(400, "invalid_request")
             ELSE NoResponse
CallbackCheck(req) ==
    IF req.error # Missing
    THEN Error(400, "access_denied")
    ELSE IF req.code = Missing \/ req.state = <<>>
    THEN Error(400, "invalid_request")
    ELSE LET authKey == Field(Split(req.state), 1)
             spotifyState == Field(Split(req.state), 2)
         IN  IF \/ ~Has(pendingAuthorizations, authKey)
                \/ pendingAuthorizations[authKey].spotifyState # spotifyState
             THEN Error(400, "invalid_request")
             ELSE NoResponse

Callback(req) ==
    LET res == CallbackCheck(req)
        authKey == Field(Split(req.state), 1)
    IN  /\ IF res # NoResponse
           THEN tasks' = tasks
           ELSE /\ CanSuspend
                /\ tasks' = Spawn([op |-> "callback", code |-> req.code,
                                   authKey |-> authKey,
                                   pendingAuth |-> pendingAuthorizations[authKey]])
        /\ last' = Step("callback", authKey, res.status, res.error,
                        [upstream |-> IF res = NoResponse THEN <<"token">> ELSE <<>>])
        /\ denied' = IF req.error # Missing /\ Has(pendingAuthorizations, authKey)
                     THEN denied \cup {authKey}
                     ELSE denied
        /\ UNCHANGED <<transports, requestCounts, admitted>>
        /\ UNCHANGED <<now, pendingAuthorizations, timers, authorizationCodes,
                       refreshTokens, authMap, currentAuthInfo, rand, ticks, exchanged>>

\* after the awaits of exchangeSpotifyCode, fetch(/v1/me) and json()
CallbackResume(t, outcome) ==
    LET spotify == SpotifyAnswer(t.code)
        authorizationCode == rand.code + 1
    IN  /\ Suspended(t)
        /\ t.op = "callback"
        /\ tasks' = Finish(t)
        /\ IF outcome # "ok"
           THEN /\ last' = Step("callback", t.authKey, 500, "server_error",
                                [upstream |-> UpstreamCalls(outcome)])
                /\ UNCHANGED <<pendingAuthorizations, authorizationCodes, rand>>
           ELSE /\ rand.code < MaxCodes
                /\ authorizationCodes' = Put(authorizationCodes, authorizationCode,
                       [clientId |-> t.pendingAuth.clientId,
                        redirectUri |-> t.pendingAuth.redirectUri,
                        codeChallenge |-> t.pendingAuth.codeChallenge,
                        userId |-> spotify.id,
                        spotifyTokens |-> [accessToken |-> spotify.access_token,
                                           refreshToken |-> spotify.refresh_token],
                        expiresAt |-> now + AUTHORIZATION_CODE_TIMEOUT])
                /\ pendingAuthorizations' = Delete(pendingAuthorizations, t.authKey)
                /\ rand' = [rand EXCEPT !.code = @ + 1]
                /\ last' = Step("callback", t.authKey, 302, "",
                                [location |-> t.pendingAuth.redirectUri,
                                 code |-> authorizationCode,
                                 state |-> t.pendingAuth.state,
                                 upstream |-> UpstreamCalls(outcome)])
        /\ UNCHANGED <<transports, requestCounts, admitted>>
        /\ UNCHANGED <<now, timers, refreshTokens, authMap, currentAuthInfo, ticks,
                       exchanged, denied>>

\* ------------------------------------------------------ POST /oauth/token
CodeParamsMissing(req) ==
    \/ req.code = 0 \/ req.redirect_uri = <<>>
    \/ req.code_verifier = Missing \/ req.client_id = Missing

\* !authCode || authCode.expiresAt < Date.now()
CodeInvalidNeverExpires(code) == ~Has(authorizationCodes, code)
CodeInvalidInverted(code) ==
    \/ ~Has(authorizationCodes, code)
    \/ authorizationCodes[code].expiresAt > now
CodeInvalid(code) ==
    \/ ~Has(authorizationCodes, code)
    \/ authorizationCodes[code].expiresAt < now

\* challengeFromVerifier === authCode.codeChallenge
VerifierUnchecked(code_verifier, authCode) == TRUE
VerifierMatches(code_verifier, authCode) ==
    generateCodeChallenge(code_verifier) = authCode.codeChallenge

\* !tokenData || tokenData.expiresAt < Date.now()
RefreshInvalidNeverExpires(token) == ~Has(refreshTokens, token)
RefreshInvalid(token) ==
    \/ ~Has(refreshTokens, token)
    \/ refreshTokens[token].expiresAt < now

\* Each branch up to its first await: the response, or NoResponse when the
\* handler goes on to createAccessToken.
TokenCheckBound(req) ==
    IF req.grant_type = "authorization_code"
    THEN IF CodeParamsMissing(req)
         THEN Error(400, "invalid_request")
         ELSE IF CodeInvalid(req.code)
         THEN Error(400, "invalid_grant")
         ELSE IF ~VerifierMatches(req.code_verifier, authorizationCodes[req.code])
         THEN Error(400, "invalid_grant")
         ELSE IF \/ req.redirect_uri # authorizationCodes[req.code].redirectUri
                 \/ req.client_id # authorizationCodes[req.code].clientId
         THEN Error(400, "invalid_grant")
         ELSE NoResponse
    ELSE IF req.grant_type = "refresh_token"
    THEN IF req.refresh_token = 0
         THEN Error(400, "invalid_request")
         ELSE IF RefreshInvalid(req.refresh_token)
         THEN Error(400, "invalid_grant")
         ELSE NoResponse
    ELSE Error(400, "unsupported_grant_type")
TokenCheck(req) ==
    IF req.grant_type = "authorization_code"
    THEN IF CodeParamsMissing(req)
         THEN Error(400, "invalid_request")
         ELSE IF CodeInvalid(req.code)
         THEN Error(400, "invalid_grant")
         ELSE IF ~VerifierMatches(req.code_verifier, authorizationCodes[req.code])
         THEN Error(400, "invalid_grant")
         ELSE NoResponse
    ELSE IF req.grant_type = "refresh_token"
    THEN IF req.refresh_token = 0
         THEN Error(400, "invalid_request")
         ELSE IF RefreshInvalid(req.refresh_token)
         THEN Error(400, "invalid_grant")
         ELSE NoResponse
    ELSE Error(400, "unsupported_grant_type")

\* this.authorizationCodes.delete(code) where the lookup fails
CodesAfterLookupEager(req) ==
    IF req.grant_type = "authorization_code" /\ req.code # 0
    THEN Delete(authorizationCodes, req.code)
    ELSE authorizationCodes
CodesAfterLookup(req) ==
    IF /\ req.grant_type = "authorization_code"
       /\ ~CodeParamsMissing(req)
       /\ CodeInvalid(req.code)
    THEN Delete(authorizationCodes, req.code)
    ELSE authorizationCodes

\* this.refreshTokens.delete(refresh_token) where the lookup fails
RefreshAfterLookupSingleUse(req) ==
    IF req.grant_type = "refresh_token" /\ req.refresh_token # 0
    THEN Delete(refreshTokens, req.refresh_token)
    ELSE refreshTokens
RefreshAfterLookupRotating(req) ==
    IF req.grant_type = "refresh_token" /\ req.refresh_token # 0
    THEN IF RefreshInvalid(req.refresh_token)
         THEN Delete(refreshTokens, req.refresh_token)
         ELSE [refreshTokens EXCEPT
                 ![req.refresh_token].spotifyTokens.refreshToken = "rotated"]
    ELSE refreshTokens
RefreshAfterLookup(req) ==
    IF /\ req.grant_type = "refresh_token"
       /\ req.refresh_token # 0
       /\ RefreshInvalid(req.refresh_token)
    THEN Delete(refreshTokens, req.refresh_token)
    ELSE refreshTokens

Named(req) ==
    IF req.grant_type = "authorization_code" THEN req.code
    ELSE IF req.grant_type = "refresh_token" THEN req.refresh_token
    ELSE 0

CodeTask(req) ==
    LET authCode == authorizationCodes[req.code]
    IN  [op |-> "token", code |-> req.code, authCode |-> authCode,
         redirect_uri |-> req.redirect_uri, client_id |-> req.client_id,
         refreshTokenId |-> rand.refresh + 1,
         accessToken |-> createAccessToken(authCode.userId, authCode.spotifyTokens)]

RefreshTask(req) ==
    LET tokenData == refreshTokens[req.refresh_token]
    IN  [op |-> "refresh", token |-> req.refresh_token,
         accessToken |-> createAccessToken(tokenData.userId, tokenData.spotifyTokens)]

Token(req) ==
    LET res == TokenCheck(req)
    IN  /\ authorizationCodes' = CodesAfterLookup(req)
        /\ refreshTokens' = RefreshAfterLookup(req)
        /\ IF res # NoResponse
           THEN UNCHANGED <<tasks, rand>>
           ELSE IF req.grant_type = "authorization_code"
           THEN /\ rand.refresh < MaxRefresh
                /\ CanSuspend
                /\ rand' = [rand EXCEPT !.refresh = @ + 1]
                /\ tasks' = Spawn(CodeTask(req))
           ELSE /\ CanSuspend
                /\ tasks' = Spawn(RefreshTask(req))
                /\ UNCHANGED rand
        /\ last' = Step(req.grant_type, Named(req), res.status, res.error, NoBody)
        /\ UNCHANGED <<transports, requestCounts, admitted>>
        /\ UNCHANGED <<now, pendingAuthorizations, timers, authMap, currentAuthInfo,
                       ticks, exchanged, denied>>

\* this.authorizationCodes.delete(code) after the refresh token is stored
CodeKept(code) == authorizationCodes
CodeConsumedWithOthers(code) == EmptyMap
CodeConsumed(code) == Delete(authorizationCodes, code)

\* after await this.createAccessToken(...)
TokenResume(t) ==
    /\ Suspended(t)
    /\ t.op \in {"token", "refresh"}
    /\ tasks' = Finish(t)
    /\ IF t.op = "token"
       THEN /\ refreshTokens' = Put(refreshTokens, t.refreshTokenId,
                   [userId |-> t.authCode.userId,
                    clientId |-> t.authCode.clientId,
                    spotifyTokens |-> t.authCode.spotifyTokens,
                    expiresAt |-> now + REFRESH_TOKEN_TIMEOUT])
            /\ authorizationCodes' = CodeConsumed(t.code)
            /\ exchanged' = exchanged \cup {t.code}
            /\ last' = Step("authorization_code", t.code, 200, "",
                            [access_token |-> t.accessToken,
                             token_type |-> "Bearer",
                             expires_in |-> EXPIRES_IN,
                             refresh_token |-> t.refreshTokenId,
                             scope |-> "read"])
       ELSE /\ last' = Step("refresh_token", t.token, 200, "",
                            [access_token |-> t.accessToken,
                             token_type |-> "Bearer",
                             expires_in |-> EXPIRES_IN,
                             scope |-> "read"])
            /\ UNCHANGED <<refreshTokens, authorizationCodes, exchanged>>
    /\ UNCHANGED <<transports, requestCounts, admitted>>
    /\ UNCHANGED <<now, pendingAuthorizations, timers, authMap, currentAuthInfo,
                   rand, ticks, denied>>

\* ------------------------------------------------------------------ clock
TickSweeping(d) ==
    /\ ticks < MaxTicks
    /\ now' = now + d
    /\ ticks' = ticks + 1
    /\ last' = Step("tick", 0, 0, "", NoBody)
    /\ authorizationCodes' =
          [code \in {c \in DOMAIN authorizationCodes :
                        now' <= authorizationCodes[c].expiresAt}
             |-> authorizationCodes[code]]
    /\ refreshTokens' =
          [token \in {r \in DOMAIN refreshTokens :
                         now' <= refreshTokens[r].expiresAt}
             |-> refreshTokens[token]]
    /\ UNCHANGED <<transports, requestCounts, admitted>>
    /\ UNCHANGED <<pendingAuthorizations, timers,
                   authMap, currentAuthInfo, tasks, rand, exchanged, denied>>
Tick(d) ==
    /\ ticks < MaxTicks
    /\ now' = now + d
    /\ ticks' = ticks + 1
    /\ last' = Step("tick", 0, 0, "", NoBody)
    /\ UNCHANGED <<transports, requestCounts, admitted>>
    /\ UNCHANGED <<pendingAuthorizations, timers, authorizationCodes, refreshTokens,
                   authMap, currentAuthInfo, tasks, rand, exchanged, denied>>

\* ------------------------------------------------- POST /oauth/register
HttpsExample == <<"h","t","t","p","s",":","/","/","e","x","a","m","p","l","e",".","c","o","m","/","c","b">>
HttpExample == <<"h","t","t","p",":","/","/","e","x","a","m","p","l","e",".","c","o","m","/","c","b">>
HttpLocalhost == <<"h","t","t","p",":","/","/","l","o","c","a","l","h","o","s","t",":","8","8","8","8","/","c","b">>
HttpLoopback == <<"h","t","t","p",":","/","/","1","2","7",".","0",".","0",".","1",":","8","8","8","8","/","c","b">>
MyApp == <<"m","y","a","p","p",":","/","/","c","a","l","l","b","a","c","k">>
FtpX == <<"f","t","p",":","/","/","x">>

\* config.validRedirectUris as remote-server.ts constructs the provider
validRedirectUris ==
    << <<"h","t","t","p",":","/","/","l","o","c","a","l","h","o","s","t",":","8","8","8","8","/","c","a","l","l","b","a","c","k">>,
       <<"h","t","t","p","s",":","/","/","l","o","c","a","l","h","o","s","t",":","8","8","8","8","/","c","a","l","l","b","a","c","k">>,
       <<"s","p","o","t","i","f","y",":","/","/">>,
       <<"c","l","a","u","d","e","-","c","o","d","e",":","/","/">> >>

\* The copy of the redirect URI rules in the registration endpoint.
RegisterUriAccepted(uri) ==
    LET url == ParseUrl(uri)
    IN  IF ~url.ok THEN FALSE
        ELSE IF url.protocol = HttpsProtocol THEN TRUE
        ELSE IF url.protocol = HttpProtocol /\ url.hostname \in {Localhost, Loopback} THEN TRUE
        ELSE IF CustomSchemeRegex(url.protocol) THEN TRUE
        ELSE FALSE

\* redirect_uris of the body: [array, items], an item being [string, value]
ItemAccepted(item) == item.string /\ RegisterUriAccepted(item.value)

Register(body) ==
    LET redirect_uris == body.redirect_uris
        items == redirect_uris.items
    IN  /\ last' =
              IF ~redirect_uris.array
              THEN Step("register", 0, 200, "",
                        [client_id |-> "mcp-public-client",
                         redirect_uris |-> validRedirectUris])
              ELSE IF \E i \in DOMAIN items : ~ItemAccepted(items[i])
              THEN Step("register", 0, 400, "invalid_redirect_uri", NoBody)
              ELSE Step("register", 0, 200, "",
                        [client_id |-> "mcp-public-client",
                         redirect_uris |-> [i \in DOMAIN items |-> items[i].value]])
        /\ UNCHANGED <<transports, requestCounts, admitted>>
        /\ UNCHANGED <<now, pendingAuthorizations, timers, authorizationCodes,
                       refreshTokens, authMap, currentAuthInfo, tasks, rand, ticks,
                       exchanged, denied>>

\* ---------------------------------------------------- bearer middleware
\* jwtVerify(token, jwtSecret, {audience, issuer}) of jose on a token that
\* carries exp: the compact form parses, the signature is the one jwtSecret
\* makes, iss and aud are the expected ones, and exp is later than the
\* current second.
WellFormedJwt(token) == "key" \in DOMAIN token

jwtVerifyNoExpiry(token, secret, audience, issuer) ==
    /\ WellFormedJwt(token)
    /\ token.key = secret
    /\ token.iss = issuer
    /\ token.aud = audience
jwtVerify(token, secret, audience, issuer) ==
    /\ WellFormedJwt(token)
    /\ token.key = secret
    /\ token.iss = issuer
    /\ token.aud = audience
    /\ token.exp > now

verifyAccessTokenSwapped(token) ==
    IF jwtVerify(token, JWT_SECRET, AUDIENCE, OAUTH_ISSUER)
    THEN [ok |-> TRUE,
          auth |-> [token |-> token,
                    clientId |-> "mcp-client",
                    scopes |-> <<"read">>,
                    expiresAt |-> token.exp,
                    extra |-> [userId |-> token.sub,
                               spotifyAccessToken |-> token.spotify_refresh_token,
                               spotifyRefreshToken |-> token.spotify_access_token]]]
    ELSE [ok |-> FALSE, message |-> "Invalid or expired access token"]
verifyAccessToken(token) ==
    IF jwtVerify(token, JWT_SECRET, AUDIENCE, OAUTH_ISSUER)
    THEN [ok |-> TRUE,
          auth |-> [token |-> token,
                    clientId |-> "mcp-client",
                    scopes |-> <<"read">>,
                    expiresAt |-> token.exp,
                    extra |-> [userId |-> token.sub,
                               spotifyAccessToken |-> token.spotify_access_token,
                               spotifyRefreshToken |-> token.spotify_refresh_token]]]
    ELSE [ok |-> FALSE, message |-> "Invalid or expired access token"]

\* req.headers.authorization as [scheme, token]: scheme is what precedes the
\* first space, Missing when the header is absent
StartsWithBearer(authHeader) == authHeader.scheme = "Bearer"

SseRequest(req) == req.method = "GET" /\ req.accept_event_stream

NoHeader == [scheme |-> Missing, realm |-> Missing, resource_metadata |-> <<>>]

\* Bearer realm="MCP", resource_metadata="${baseUrl}/.well-known/oauth-protected-resource"
WwwAuthenticate(req) ==
    LET cf == IF req.cf_visitor_scheme # Missing THEN req.cf_visitor_scheme
              ELSE req.protocol
        protocol == IF req.x_forwarded_proto # Missing THEN req.x_forwarded_proto
                    ELSE cf
    IN  [scheme |-> "Bearer", realm |-> "MCP",
         resource_metadata |->
             <<protocol, "://", req.host, "/.well-known/oauth-protected-resource">>]

Unauthorized(req, error, header) ==
    Step("mcp", 0, 401, error,
         [request |-> req,
          content_type |-> IF SseRequest(req) THEN "text/event-stream"
                           ELSE "application/json",
          www_authenticate |-> header,
          next |-> FALSE])

\* the catch of authMiddleware around verifyAccessToken(token)
InvalidTokenWithReason(req, token) ==
    Unauthorized(req,
                 IF WellFormedJwt(token) /\ token.exp <= now THEN "token_expired"
                 ELSE "invalid_token",
                 NoHeader)
InvalidToken(req, token) == Unauthorized(req, "invalid_token", NoHeader)

\* authMiddleware in front of mcpHandler; next records whether the handler ran
authMiddleware(req) ==
    LET authHeader == req.authorization
    IN  IF authHeader.scheme = Missing \/ ~StartsWithBearer(authHeader)
        THEN IF SseRequest(req)
             THEN Unauthorized(req, "unauthorized", NoHeader)
             ELSE Unauthorized(req, "unauthorized", WwwAuthenticate(req))
        ELSE LET verified == verifyAccessToken(authHeader.token)
             IN  IF verified.ok
                 THEN Step("mcp", 0, 0, "",
                           [request |-> req, auth |-> verified.auth,
                            www_authenticate |-> NoHeader, next |-> TRUE])
                 ELSE InvalidToken(req, authHeader.token)

Mcp(req) ==
    /\ last' = authMiddleware(req)
    /\ UNCHANGED <<transports, requestCounts, admitted>>
    /\ UNCHANGED <<now, pendingAuthorizations, timers, authorizationCodes,
                   refreshTokens, authMap, currentAuthInfo, tasks, rand, ticks,
                   exchanged, denied>>

\* ------------------------------------------------------------ auth store
\* authMap is the Map in insertion order: a sequence of [sessionId, authInfo]
AuthIndex(sessionId) == {i \in DOMAIN authMap : authMap[i].sessionId = sessionId}

setAuth(sessionId, authInfo) ==
    /\ authMap' = IF AuthIndex(sessionId) = {}
                  THEN Append(authMap, [sessionId |-> sessionId, authInfo |-> authInfo])
                  ELSE [i \in DOMAIN authMap |->
                          IF authMap[i].sessionId = sessionId
                          THEN [sessionId |-> sessionId, authInfo |-> authInfo]
                          ELSE authMap[i]]
    /\ currentAuthInfo' = authInfo

getAuth(sessionId) ==
    IF AuthIndex(sessionId) = {} THEN None
    ELSE authMap[CHOOSE i \in AuthIndex(sessionId) : TRUE].authInfo

getCurrentAuth == currentAuthInfo

\* the loop over authMap breaks after its first entry
updateCurrentAuth(newAuthInfo) ==
    /\ currentAuthInfo' = newAuthInfo
    /\ authMap' = [i \in DOMAIN authMap |->
                     IF i = 1 THEN [authMap[i] EXCEPT !.authInfo = newAuthInfo]
                     ELSE authMap[i]]

NotSession(sessionId, entry) == entry.sessionId # sessionId

removeAuthKeepsBinding(sessionId) ==
    /\ authMap' = authMap
    /\ currentAuthInfo' = currentAuthInfo
removeAuth(sessionId) ==
    LET kept == SelectSeq(authMap, LAMBDA entry : NotSession(sessionId, entry))
    IN  /\ authMap' = kept
        /\ currentAuthInfo' = IF currentAuthInfo # None /\ Len(kept) = 0 THEN None
                              ELSE currentAuthInfo

\* ------------------------------------------------------------- /mcp
\* authInfo of onsessioninitialized, from req.auth.extra
AuthInfoOf(auth) ==
    [userId |-> auth.extra.userId,
     spotifyAccessToken |-> auth.extra.spotifyAccessToken,
     spotifyRefreshToken |-> auth.extra.spotifyRefreshToken]

\* What Spotify answers a refresh of one of its refresh tokens: a new access
\* token, the refresh token not rotated.
SpotifyRefresh(refreshToken) ==
    CASE refreshToken = "rt1" -> [access_token |-> "at1-refreshed", refresh_token |-> Missing]
      [] refreshToken = "rt2" -> [access_token |-> "at2-refreshed", refresh_token |-> Missing]

ToolOutcomes == {"ok", "expired", "failed"}

\* SpotifyApi.withAccessToken(clientId, accessTokenObject) and the call of action
Upstream(accessToken, refreshToken) ==
    [access_token |-> accessToken, refresh_token |-> refreshToken]
NoUpstream == Upstream(Missing, Missing)

\* the tool handler up to the first upstream call
ToolCall(sessionId) ==
    LET authInfo == getCurrentAuth
    IN  /\ IF authInfo.spotifyAccessToken = Missing
           THEN /\ last' = Step("tool", sessionId, 200, "No authentication found",
                                [upstream |-> NoUpstream])
                /\ tasks' = tasks
           ELSE /\ CanSuspend
                /\ tasks' = Spawn([op |-> "tool", stage |-> "calling",
                                   session |-> sessionId,
                                   spotifyAccessToken |-> authInfo.spotifyAccessToken,
                                   spotifyRefreshToken |-> authInfo.spotifyRefreshToken])
                /\ last' = Step("tool", sessionId, 0, "",
                                [upstream |-> Upstream(authInfo.spotifyAccessToken,
                                                       authInfo.spotifyRefreshToken)])
        /\ UNCHANGED <<transports, authMap, currentAuthInfo, rand>>

\* new StreamableHTTPServerTransport(...), onsessioninitialized.  setAuth runs
\* in the .then of import('./server/auth-store.js'), a module loaded at
\* start-up: a promise job, run before the event loop takes another request.
Initialize(auth) ==
    LET newSessionId == rand.session + 1
    IN  /\ rand.session < MaxSessions
        /\ rand' = [rand EXCEPT !.session = @ + 1]
        /\ transports' = Put(transports, newSessionId,
                             [sessionId |-> newSessionId, auth |-> auth])
        /\ setAuth(newSessionId, AuthInfoOf(auth))
        /\ last' = Step("initialize", newSessionId, 200, "", NoBody)
        /\ tasks' = tasks

\* transport.onclose, reached by DELETE /mcp of a session
Close(sessionId) ==
    /\ transports' = Delete(transports, sessionId)
    /\ removeAuth(sessionId)
    /\ last' = Step("close", sessionId, 200, "", NoBody)
    /\ UNCHANGED <<tasks, rand>>

InvalidSessionAdopted(sessionId) ==
    /\ last' = Step("mcp", sessionId, 400, "Invalid or missing session ID", NoBody)
    /\ transports' = Put(transports, sessionId,
                         [sessionId |-> sessionId, auth |-> None])
    /\ UNCHANGED <<authMap, currentAuthInfo, tasks, rand>>
InvalidSession(sessionId) ==
    /\ last' = Step("mcp", sessionId, 400, "Invalid or missing session ID", NoBody)
    /\ UNCHANGED <<transports, authMap, currentAuthInfo, tasks, rand>>

\* authMiddleware, then mcpHandler: req is a /mcp request with its
\* mcp-session-id header (0: none) and the method of its JSON-RPC body
McpSession(req) ==
    LET authHeader == req.authorization
        sessionId == req.session_id
        verified == verifyAccessToken(authHeader.token)
    IN  /\ IF authHeader.scheme = Missing \/ ~StartsWithBearer(authHeader)
           THEN /\ last' = Step("mcp", sessionId, 401, "unauthorized", NoBody)
                /\ UNCHANGED <<transports, authMap, currentAuthInfo, tasks, rand>>
           ELSE IF ~verified.ok
           THEN /\ last' = Step("mcp", sessionId, 401, "invalid_token", NoBody)
                /\ UNCHANGED <<transports, authMap, currentAuthInfo, tasks, rand>>
           ELSE IF req.body_method = "initialize"
           THEN Initialize(verified.auth)
           ELSE IF sessionId # 0 /\ Has(transports, sessionId)
           THEN IF req.method = "DELETE" THEN Close(sessionId)
                ELSE IF req.body_method = "tools/call" THEN ToolCall(sessionId)
                ELSE /\ last' = Step("mcp", sessionId, 200, "", NoBody)
                     /\ UNCHANGED <<transports, authMap, currentAuthInfo, tasks, rand>>
           ELSE InvalidSession(sessionId)
        /\ UNCHANGED <<now, pendingAuthorizations, timers, authorizationCodes,
                       refreshTokens, ticks, exchanged, denied, requestCounts, admitted>>

ToolDone(t, error) ==
    /\ tasks' = Finish(t)
    /\ last' = Step("tool", t.session, 200, error, [upstream |-> NoUpstream])
    /\ UNCHANGED <<authMap, currentAuthInfo>>

\* handleAuthenticatedSpotifyRequest after await action(spotifyApi)
ToolResume(t, outcome) ==
    /\ Suspended(t)
    /\ t.op = "tool" /\ t.stage = "calling"
    /\ IF outcome = "ok" THEN ToolDone(t, "")
       ELSE IF outcome = "expired" /\ t.spotifyRefreshToken # Missing
       THEN /\ tasks' = Finish(t) (+) SetToBag({[t EXCEPT !.stage = "refreshing"]})
            /\ last' = Step("tool", t.session, 0, "", [upstream |-> NoUpstream])
            /\ UNCHANGED <<authMap, currentAuthInfo>>
       ELSE ToolDone(t, "tool_error")
    /\ UNCHANGED <<now, pendingAuthorizations, timers, authorizationCodes,
                   refreshTokens, rand, ticks, exchanged, denied, transports, requestCounts,
                   admitted>>

\* after await refreshOAuthSpotifyToken(spotifyRefreshToken, config)
ToolRefreshed(t, outcome) ==
    LET newTokens == SpotifyRefresh(t.spotifyRefreshToken)
        currentAuth == getCurrentAuth
        rotated == IF newTokens.refresh_token # Missing THEN newTokens.refresh_token
                   ELSE t.spotifyRefreshToken
    IN  /\ Suspended(t)
        /\ t.op = "tool" /\ t.stage = "refreshing"
        /\ IF outcome # "ok" THEN ToolDone(t, "OAuth token refresh failed")
           ELSE /\ IF currentAuth # None
                   THEN updateCurrentAuth(
                            [currentAuth EXCEPT
                               !.spotifyAccessToken = newTokens.access_token,
                               !.spotifyRefreshToken =
                                   IF newTokens.refresh_token # Missing
                                   THEN newTokens.refresh_token
                                   ELSE currentAuth.spotifyRefreshToken])
                   ELSE UNCHANGED <<authMap, currentAuthInfo>>
                /\ tasks' = Finish(t) (+) SetToBag({[t EXCEPT
                               !.stage = "retrying",
                               !.spotifyAccessToken = newTokens.access_token,
                               !.spotifyRefreshToken = rotated]})
                /\ last' = Step("tool", t.session, 0, "",
                                [upstream |-> Upstream(newTokens.access_token, rotated)])
        /\ UNCHANGED <<now, pendingAuthorizations, timers, authorizationCodes,
                       refreshTokens, rand, ticks, exchanged, denied, transports,
                       requestCounts, admitted>>

\* after await action(newSpotifyApi)
ToolRetriedAgain(t, outcome) ==
    /\ Suspended(t)
    /\ t.op = "tool" /\ t.stage = "retrying"
    /\ IF outcome = "ok" THEN ToolDone(t, "")
       ELSE IF outcome = "expired"
       THEN /\ tasks' = Finish(t) (+) SetToBag({[t EXCEPT !.stage = "refreshing"]})
            /\ last' = Step("tool", t.session, 0, "", [upstream |-> NoUpstream])
            /\ UNCHANGED <<authMap, currentAuthInfo>>
       ELSE ToolDone(t, "OAuth token refresh failed")
    /\ UNCHANGED <<now, pendingAuthorizations, timers, authorizationCodes,
                   refreshTokens, rand, ticks, exchanged, denied, transports,
                   requestCounts, admitted>>
ToolRetried(t, outcome) ==
    /\ Suspended(t)
    /\ t.op = "tool" /\ t.stage = "retrying"
    /\ IF outcome = "ok" THEN ToolDone(t, "")
       ELSE ToolDone(t, "OAuth token refresh failed")
    /\ UNCHANGED <<now, pendingAuthorizations, timers, authorizationCodes,
                   refreshTokens, rand, ticks, exchanged, denied, transports, requestCounts,
                   admitted>>

\* ------------------------------------------------- rateLimitMiddleware
\* the defaults of rateLimitMiddleware(windowMs, maxRequests); the window in
\* seconds, the unit of now
windowMs == 60000 \div 1000
maxRequests == 100

RateKey(req) == IF req.ip # Missing THEN req.ip ELSE "unknown"

\* ghost: one more request of key admitted to the handlers at time now
Admit(key) ==
    LET times == IF Has(admitted, key) THEN admitted[key] ELSE EmptyMap
    IN  Put(admitted, key,
            Put(times, now, IF Has(times, now) THEN times[now] + 1 ELSE 1))

RateLimit(req) ==
    LET key == RateKey(req)
        rateData == IF ~Has(requestCounts, key) \/ now > requestCounts[key].resetTime
                    THEN [count |-> 0, resetTime |-> now + windowMs]
                    ELSE requestCounts[key]
    IN  /\ IF rateData.count >= maxRequests
           THEN /\ requestCounts' = Put(requestCounts, key, rateData)
                /\ admitted' = admitted
                /\ last' = Step("rate", key, 429, "Too many requests",
                                [retryAfter |-> rateData.resetTime - now,
                                 next |-> FALSE])
           ELSE /\ requestCounts' = Put(requestCounts, key,
                                        [rateData EXCEPT !.count = @ + 1])
                /\ admitted' = Admit(key)
                /\ last' = Step("rate", key, 0, "", [retryAfter |-> 0, next |-> TRUE])
        /\ UNCHANGED <<now, pendingAuthorizations, timers, authorizationCodes,
                       refreshTokens, authMap, currentAuthInfo, tasks, rand, ticks,
                       exchanged, denied, transports>>

\* the callback of setInterval(..., 60000), due from one window after start on
CleanupStale ==
    /\ now >= windowMs
    /\ requestCounts' = [key \in {k \in DOMAIN requestCounts :
                                     ~(now > requestCounts[k].resetTime - windowMs)}
                           |-> requestCounts[key]]
    /\ last' = Step("cleanup", 0, 0, "", NoBody)
    /\ UNCHANGED <<now, pendingAuthorizations, timers, authorizationCodes,
                   refreshTokens, authMap, currentAuthInfo, tasks, rand, ticks,
                   exchanged, denied, transports, admitted>>
Cleanup ==
    /\ now >= windowMs
    /\ requestCounts' = [key \in {k \in DOMAIN requestCounts :
                                     ~(now > requestCounts[k].resetTime)}
                           |-> requestCounts[key]]
    /\ last' = Step("cleanup", 0, 0, "", NoBody)
    /\ UNCHANGED <<now, pendingAuthorizations, timers, authorizationCodes,
                   refreshTokens, authMap, currentAuthInfo, tasks, rand, ticks,
                   exchanged, denied, transports, admitted>>

\* --------------------------------------------------------- specification
Init ==
    /\ now = 0
    /\ pendingAuthorizations = EmptyMap
    /\ timers = {}
    /\ authorizationCodes = EmptyMap
    /\ refreshTokens = EmptyMap
    /\ authMap = <<>>
    /\ currentAuthInfo = None
    /\ tasks = EmptyBag
    /\ rand = [authorize |-> 0, code |-> 0, refresh |-> 0, session |-> 0]
    /\ ticks = 0
    /\ exchanged = {}
    /\ denied = {}
    /\ transports = EmptyMap
    /\ requestCounts = EmptyMap
    /\ admitted = EmptyMap
    /\ last = Step("init", 0, 0, "", NoBody)

\* RFC 7636 S256 as the client computes it: BASE64URL(SHA256(verifier))
S256(verifier) ==
    CASE verifier = "v1" -> "O_wmlZTvZJIo6adLqwDwQu_JHVrMb77jGjgugNQjiP4"
      [] verifier = "v2" -> "-wTctpcOTD0Yc95R_VpQ17tGszgxE2AmZcNQ7EC1-ZA"

AuthorizeRequest(redirect_uri, response_type, code_challenge, method) ==
    [client_id |-> CLIENT_ID, redirect_uri |-> redirect_uri,
     response_type |-> response_type, code_challenge |-> code_challenge,
     code_challenge_method |-> method, state |-> "xyz", scope |-> "read"]

\* A well-formed request of a client that holds verifier v1.
GoodAuthorize == AuthorizeRequest(HttpsCb, "code", S256("v1"), "S256")

AuthorizeRequests ==
    {GoodAuthorize,
     AuthorizeRequest(HttpsCb, "code", S256("v2"), "S256"),
     AuthorizeRequest(NoScheme, "code", S256("v1"), "S256"),
     AuthorizeRequest(HttpsCb, "token", S256("v1"), "S256"),
     AuthorizeRequest(HttpsCb, "code", S256("v1"), "plain"),
     AuthorizeRequest(HttpsCb, "code", Missing, "S256")}

KnownKeys == {2 * i : i \in 1..rand.authorize}
KnownNonces == {2 * i - 1 : i \in 1..rand.authorize}
UnknownKey == -2
UnknownNonce == -1

\* The callback Spotify redirects the user agent to after the consent of the
\* attempt with handle k: its own code, and the state it was given.
Consent(k) ==
    [code |-> IF k % 4 = 2 THEN "sc1" ELSE "sc2", state |-> <<k, Colon, k - 1>>,
     error |-> Missing]

CallbackRequests ==
    {Consent(k) : k \in KnownKeys}
    \cup {[Consent(k) EXCEPT !.state = <<k, Colon, n>>] :
            k \in KnownKeys \cup {UnknownKey}, n \in KnownNonces \cup {UnknownNonce}}
    \cup {[Consent(k) EXCEPT !.state = <<k>>] : k \in KnownKeys}
    \cup {[Consent(k) EXCEPT !.state = <<k, Colon, k - 1, Colon, k>>] : k \in KnownKeys}
    \cup {[Consent(2) EXCEPT !.code = Missing],
          [Consent(UnknownKey) EXCEPT !.code = Missing, !.error = "access_denied"],
          [Consent(UnknownKey) EXCEPT !.error = "access_denied"]}

\* The callback Spotify redirects to when the user denies the consent of the
\* first attempt.
Denial == [Consent(2) EXCEPT !.code = Missing, !.error = "access_denied"]

KnownCodes == 1..rand.code
KnownRefresh == 1..rand.refresh
Unknown == -1

OtherCb == <<"h","t","t","p","s",":","/","/","b",".","i","o","/","c","b">>

CodeGrant(code, verifier) ==
    [grant_type |-> "authorization_code", code |-> code, redirect_uri |-> HttpsCb,
     code_verifier |-> verifier, client_id |-> CLIENT_ID, refresh_token |-> 0]

RefreshGrant(token) ==
    [grant_type |-> "refresh_token", code |-> 0, redirect_uri |-> <<>>,
     code_verifier |-> Missing, client_id |-> Missing, refresh_token |-> token]

TokenRequests ==
    {CodeGrant(c, v) : c \in KnownCodes \cup {Unknown}, v \in Verifiers}
    \cup {[CodeGrant(c, v) EXCEPT !.redirect_uri = OtherCb, !.client_id = "other-client"] :
            c \in KnownCodes, v \in Verifiers}
    \cup {CodeGrant(0, "v1"), CodeGrant(1, Missing)}
    \cup {RefreshGrant(r) : r \in KnownRefresh \cup {Unknown, 0}}
    \cup {[RefreshGrant(1) EXCEPT !.grant_type = "password"]}

\* The protocol with every handler open to well-formed and malformed requests,
\* at one instant.
Next ==
    \/ \E req \in AuthorizeRequests : Authorize(req)
    \/ \E req \in CallbackRequests : Callback(req)
    \/ \E t \in BagToSet(tasks), outcome \in UpstreamOutcomes : CallbackResume(t, outcome)
    \/ \E req \in TokenRequests : Token(req)
    \/ \E t \in BagToSet(tasks) : TokenResume(t)

Spec == Init /\ [][Next]_vars

\* The protocol over time: clients that follow it (and may present the wrong
\* verifier or an unknown refresh token), the clock and the expiry timers.  A
\* request arrives while no other handler is suspended; the clock and the
\* timers run while one is.
TimeSteps == {AUTHORIZATION_CODE_TIMEOUT, REFRESH_TOKEN_TIMEOUT}

ClockTokenRequests ==
    {CodeGrant(c, v) : c \in KnownCodes, v \in Verifiers}
    \cup {RefreshGrant(r) : r \in KnownRefresh \cup {Unknown}}

NextClock ==
    \/ Authorize(GoodAuthorize)
    \/ \E timer \in timers : PendingTimeout(timer)
    \/ \E k \in KnownKeys : tasks = EmptyBag /\ Callback(Consent(k))
    \/ \E t \in BagToSet(tasks), outcome \in UpstreamOutcomes : CallbackResume(t, outcome)
    \/ \E req \in ClockTokenRequests : tasks = EmptyBag /\ Token(req)
    \/ \E t \in BagToSet(tasks) : TokenResume(t)
    \/ \E d \in TimeSteps : Tick(d)

SpecClock == Init /\ [][NextClock]_vars

\* Authorization attempts over time, completed or abandoned.  Attempts start
\* while the clock of the model can still advance; time passes, and a timer
\* that is due fires (setTimeout of a running process).
NextLive ==
    \/ ticks < MaxTicks /\ Authorize(GoodAuthorize)
    \/ \E timer \in timers : PendingTimeout(timer)
    \/ \E k \in KnownKeys : tasks = EmptyBag /\ Callback(Consent(k))
    \/ \E t \in BagToSet(tasks), outcome \in UpstreamOutcomes : CallbackResume(t, outcome)
    \/ \E d \in TimeSteps : Tick(d)

SpecLive ==
    /\ Init
    /\ [][NextLive]_vars
    /\ WF_vars(\E d \in TimeSteps : Tick(d))
    /\ WF_vars(\E timer \in timers : PendingTimeout(timer))

\* The redirect URI rules of /oauth/authorize and /oauth/register over URIs of
\* every scheme class.
Uris == {HttpsExample, HttpExample, HttpLocalhost, HttpLoopback, MyApp, FtpX, NoScheme}

UriRequest(uri) == AuthorizeRequest(uri, "code", S256("v1"), "S256")

StringItem(uri) == [string |-> TRUE, value |-> uri]
NumberItem == [string |-> FALSE, value |-> <<>>]
Array(items) == [redirect_uris |-> [array |-> TRUE, items |-> items]]
NoArray == [redirect_uris |-> [array |-> FALSE, items |-> <<>>]]

RegisterBodies ==
    {NoArray, Array(<<>>), Array(<<NumberItem>>)}
    \cup {Array(<<StringItem(uri)>>) : uri \in Uris}
    \cup {Array(<<StringItem(HttpsExample), StringItem(uri)>>) : uri \in Uris}

NextUri ==
    \/ \E uri \in Uris : Authorize(UriRequest(uri))
    \/ \E body \in RegisterBodies : Register(body)

SpecUri == Init /\ [][NextUri]_vars

\* The bearer middleware over time, for the tokens a client can present: the
\* ones the server signed at the start or signs now, and tokens of another
\* key, issuer or audience.
BearerSteps == {1, ACCESS_TOKEN_LIFETIME - 1}

IssueTimes == {0, now}

Minted(at, key, issuer) ==
    SignJWT("u1", [accessToken |-> "at1", refreshToken |-> "rt1"], key, issuer, at)

Garbage == [raw |-> "not.a.jwt"]

BearerTokens ==
    {Minted(at, key, issuer) : at \in IssueTimes,
                               key \in {JWT_SECRET, "other-secret"},
                               issuer \in {OAUTH_ISSUER, "https://issuer.example"}}
    \cup {[Minted(at, JWT_SECRET, OAUTH_ISSUER) EXCEPT !.aud = "other-audience"] :
            at \in IssueTimes}
    \cup {Garbage}

AuthorizationHeaders ==
    {[scheme |-> Missing, token |-> Garbage],
     [scheme |-> "Basic", token |-> Garbage],
     [scheme |-> "bearer", token |-> createAccessToken("u1", [accessToken |-> "at1", refreshToken |-> "rt1"])]}
    \cup {[scheme |-> "Bearer", token |-> token] : token \in BearerTokens}

McpRequest(method, accept_event_stream, authorization) ==
    [method |-> method, accept_event_stream |-> accept_event_stream,
     authorization |-> authorization, protocol |-> "http", host |-> "localhost:3000",
     x_forwarded_proto |-> Missing, cf_visitor_scheme |-> Missing]

McpRequests ==
    {McpRequest(m[1], m[2], authorization) :
        m \in {<<"POST", FALSE>>, <<"GET", TRUE>>, <<"GET", FALSE>>, <<"POST", TRUE>>},
        authorization \in AuthorizationHeaders}
    \cup {[McpRequest("POST", FALSE, [scheme |-> Missing, token |-> Garbage])
             EXCEPT !.x_forwarded_proto = "https", !.cf_visitor_scheme = c] :
            c \in {Missing, "https"}}
    \cup {[McpRequest("POST", FALSE, [scheme |-> Missing, token |-> Garbage])
             EXCEPT !.cf_visitor_scheme = "https"]}

NextBearer ==
    \/ \E req \in McpRequests : Mcp(req)
    \/ \E d \in BearerSteps : Tick(d)

SpecBearer == Init /\ [][NextBearer]_vars

\* Sessions of /mcp for two users who hold bearer tokens of the server, next
\* to authorize, callback and token requests the server rejects and
\* authorize requests it accepts.
UserTokens ==
    {createAccessToken("u1", [accessToken |-> "at1", refreshToken |-> "rt1"]),
     createAccessToken("u2", [accessToken |-> "at2", refreshToken |-> "rt2"])}

SessionRequest(method, authorization, session_id, body_method) ==
    [method |-> method, authorization |-> authorization, session_id |-> session_id,
     body_method |-> body_method]

KnownSessions == 1..rand.session

Bearer(token) == [scheme |-> "Bearer", token |-> token]

ToolCalls ==
    {SessionRequest("POST", Bearer(token), sid, "tools/call") :
        token \in UserTokens, sid \in KnownSessions}

SessionRequests ==
    {SessionRequest("POST", Bearer(token), sid, "initialize") :
        token \in UserTokens, sid \in KnownSessions \cup {0}}
    \cup {SessionRequest("POST", Bearer(token), sid, body_method) :
            token \in UserTokens, sid \in {0, Unknown},
            body_method \in {"tools/call", "tools/list"}}
    \cup {SessionRequest("POST", Bearer(token), sid, "tools/list") :
            token \in UserTokens, sid \in KnownSessions}
    \cup {SessionRequest("DELETE", Bearer(token), sid, Missing) :
            token \in UserTokens, sid \in KnownSessions \cup {0}}
    \cup {SessionRequest("POST", Bearer(Garbage), sid, "tools/call") :
            sid \in KnownSessions}
    \cup {SessionRequest("POST", [scheme |-> Missing, token |-> Garbage], 0, "initialize")}

MethodRequests ==
    {AuthorizeRequest(HttpsCb, "code", S256("v1"), method) :
        method \in {"plain", "s256", Missing}}

SessionAuthorizeRequests ==
    {GoodAuthorize, AuthorizeRequest(HttpsCb, "token", S256("v1"), "S256")}
    \cup MethodRequests

\* ---------------------------------------------------------- rate limiting
\* A client with an address and a request whose req.ip is undefined.
ClientIp == "203.0.113.7"
RateRequest(ip) == [ip |-> ip]

\* The clock moves to the last second of the first window, then past its end.
RateSteps == <<windowMs - 1, 2>>

\* At time 0 a client sends at most the request that opens its window; after
\* that the client with an address goes on sending.
NextRate ==
    \/ \E ip \in {ClientIp, Missing} :
          /\ now = 0
          /\ ~Has(requestCounts, RateKey(RateRequest(ip)))
          /\ RateLimit(RateRequest(ip))
    \/ now > 0 /\ RateLimit(RateRequest(ClientIp))
    \/ Cleanup
    \/ \E i \in DOMAIN RateSteps : i = ticks + 1 /\ Tick(RateSteps[i])

SpecRate == Init /\ [][NextRate]_vars

\* Clients that follow the protocol and then use the tools: the flow, the
\* refresh grant, sessions opened with the bearer tokens, tool calls whose
\* delegated token has expired, and the clock.  One handler runs at a time.
RecordRequests ==
    {CodeGrant(c, "v1") : c \in KnownCodes}
    \cup {RefreshGrant(r) : r \in KnownRefresh}

NextRecords ==
    \/ tasks = EmptyBag /\ Authorize(GoodAuthorize)
    \/ \E k \in KnownKeys : tasks = EmptyBag /\ Callback(Consent(k))
    \/ \E t \in BagToSet(tasks) : CallbackResume(t, "ok")
    \/ \E req \in RecordRequests : tasks = EmptyBag /\ Token(req)
    \/ \E t \in BagToSet(tasks) : TokenResume(t)
    \/ \E token \in UserTokens :
          /\ tasks = EmptyBag
          /\ refreshTokens # EmptyMap
          /\ McpSession(SessionRequest("POST", Bearer(token), 0, "initialize"))
    \/ \E req \in ToolCalls : tasks = EmptyBag /\ McpSession(req)
    \/ \E t \in BagToSet(tasks) : ToolResume(t, "expired")
    \/ \E t \in BagToSet(tasks) : ToolRefreshed(t, "ok")
    \/ \E t \in BagToSet(tasks) : ToolRetried(t, "ok")
    \/ tasks = EmptyBag /\ Tick(REFRESH_TOKEN_TIMEOUT)

SpecRecords == Init /\ [][NextRecords]_vars

\* One tool call is in flight at a time; every other request may arrive while
\* it is suspended.
NextSession ==
    \/ \E req \in SessionRequests : McpSession(req)
    \/ \E req \in ToolCalls : tasks = EmptyBag /\ McpSession(req)
    \/ \E t \in BagToSet(tasks), outcome \in ToolOutcomes : ToolResume(t, outcome)
    \/ \E t \in BagToSet(tasks), outcome \in {"ok", "failed"} : ToolRefreshed(t, outcome)
    \/ \E t \in BagToSet(tasks), outcome \in ToolOutcomes : ToolRetried(t, outcome)
    \/ \E req \in SessionAuthorizeRequests : Authorize(req)

SpecSession == Init /\ [][NextSession]_vars

\* The authorization flow with one handler at a time, open to well-formed and
\* malformed requests, next to /mcp sessions that bind credentials.
NextFlow ==
    \/ \E req \in AuthorizeRequests : Authorize(req)
    \/ \E req \in CallbackRequests \cup {Denial} : tasks = EmptyBag /\ Callback(req)
    \/ \E t \in BagToSet(tasks), outcome \in UpstreamOutcomes : CallbackResume(t, outcome)
    \/ \E req \in TokenRequests : tasks = EmptyBag /\ Token(req)
    \/ \E t \in BagToSet(tasks) : TokenResume(t)
    \/ \E token \in UserTokens :
          McpSession(SessionRequest("POST", Bearer(token), 0, "initialize"))

SpecFlow == Init /\ [][NextFlow]_vars

\* ------------------------------------------------------------------ claims
WellFormedCodeGrant(req) ==
    /\ req.grant_type = "authorization_code"
    /\ ~CodeParamsMissing(req)

Rejected(error) == last'.status = 400 /\ last'.error = error

\* C1: once a token exchange of code K has answered 200, every later
\* authorization_code request that names K, with any verifier, redirect_uri
\* and client_id, is answered 400 invalid_grant, starts no signing of a bearer
\* token and stores no refresh-token record.
C1_SingleUse ==
    [][\A req \in TokenRequests :
          (WellFormedCodeGrant(req) /\ req.code \in exchanged /\ Token(req))
          => (/\ Rejected("invalid_grant")
              /\ tasks' = tasks
              /\ refreshTokens' = refreshTokens)]_vars

C1_ReuseRejected ==
    /\ last.op = "authorization_code"
    /\ last.key \in exchanged
    /\ last.status = 400
    /\ last.error = "invalid_grant"

\* C2: for a stored code with PKCE challenge C, an authorization_code request
\* whose verifier V has S256(V) # C is answered 400 invalid_grant, starts no
\* signing of a bearer token and stores no refresh-token record.
C2_VerifierBound ==
    [][\A req \in TokenRequests :
          (/\ WellFormedCodeGrant(req)
           /\ Has(authorizationCodes, req.code)
           /\ S256(req.code_verifier) # authorizationCodes[req.code].codeChallenge
           /\ Token(req))
          => (/\ Rejected("invalid_grant")
              /\ tasks' = tasks
              /\ refreshTokens' = refreshTokens)]_vars

C2_WrongVerifierRejected ==
    /\ last.op = "authorization_code"
    /\ Has(authorizationCodes, last.key)
    /\ last.status = 400
    /\ last.error = "invalid_grant"

PendingDue(k) == CHOOSE timer \in timers : timer.authKey = k
PendingLive(k) == Has(pendingAuthorizations, k) /\ \E timer \in timers : timer.authKey = k

\* C3: the happy path completes step by step.  A callback that carries the
\* combined state of a pending authorization before its 10-minute timeout is
\* taken up; when the upstream exchange and the identity fetch succeed it is
\* answered with a fresh code K stored with the challenge of the authorize
\* request; an exchange of K before its expiry with a verifier V where
\* S256(V) is that challenge is taken up and answered 200 with access_token,
\* refresh_token and expires_in = 3600, adds exactly one refresh-token record
\* and removes K.
C3_HappyPath ==
    [][/\ \A k \in KnownKeys :
            (PendingLive(k) /\ now < PendingDue(k).due /\ Callback(Consent(k)))
            => (/\ last'.status = 0
                /\ \E t \in BagToSet(tasks') :
                      /\ tasks' = Spawn(t)
                      /\ t.op = "callback"
                      /\ t.pendingAuth = pendingAuthorizations[k])
       /\ \A t \in BagToSet(tasks) :
            (t.op = "callback" /\ CallbackResume(t, "ok"))
            => (/\ last'.status = 302
                /\ last'.body.code \notin DOMAIN authorizationCodes
                /\ DOMAIN authorizationCodes' =
                       DOMAIN authorizationCodes \cup {last'.body.code}
                /\ authorizationCodes'[last'.body.code].codeChallenge =
                       t.pendingAuth.codeChallenge)
       /\ \A req \in ClockTokenRequests :
            (/\ WellFormedCodeGrant(req)
             /\ Has(authorizationCodes, req.code)
             /\ now < authorizationCodes[req.code].expiresAt
             /\ S256(req.code_verifier) = authorizationCodes[req.code].codeChallenge
             /\ tasks = EmptyBag
             /\ Token(req))
            => (/\ last'.status = 0
                /\ \E t \in BagToSet(tasks') :
                      tasks' = Spawn(t) /\ t.op = "token" /\ t.code = req.code)
       /\ \A t \in BagToSet(tasks) :
            (t.op = "token" /\ TokenResume(t))
            => (/\ last'.status = 200
                /\ last'.body.access_token.sub = t.authCode.userId
                /\ last'.body.expires_in = 3600
                /\ last'.body.refresh_token \notin DOMAIN refreshTokens
                /\ DOMAIN refreshTokens' =
                       DOMAIN refreshTokens \cup {last'.body.refresh_token}
                /\ \A r \in DOMAIN refreshTokens : refreshTokens'[r] = refreshTokens[r]
                /\ ~Has(authorizationCodes', t.code))]_vars

C3_Exchanged ==
    /\ last.op = "authorization_code"
    /\ last.status = 200
    /\ last.body.expires_in = 3600
    /\ Has(refreshTokens, last.body.refresh_token)
    /\ ~Has(authorizationCodes, last.key)

\* C4: a callback that names a pending authorization older than the
\* 10-minute timeout, and a token exchange that names a code older than the
\* 10-minute timeout, are answered as they are for an absent entry
\* (400 invalid_request, 400 invalid_grant) and take nothing up, whether or
\* not the timer of the entry has run.
C4_ExpiryOnRead ==
    [][/\ \A k \in KnownKeys :
            (PendingLive(k) /\ now > PendingDue(k).due /\ Callback(Consent(k)))
            => (Rejected("invalid_request") /\ tasks' = tasks)
       /\ \A req \in ClockTokenRequests :
            (/\ WellFormedCodeGrant(req)
             /\ Has(authorizationCodes, req.code)
             /\ now > authorizationCodes[req.code].expiresAt
             /\ Token(req))
            => (Rejected("invalid_grant") /\ tasks' = tasks)]_vars

Presented == last.body.request.authorization

\* the conditions the contract names, on the token itself
Authentic(token) ==
    /\ WellFormedJwt(token)
    /\ token.key = JWT_SECRET
    /\ token.aud = AUDIENCE
    /\ token.iss = OAUTH_ISSUER
    /\ now < token.exp

Unauthenticated(req) ==
    \/ req.authorization.scheme = Missing
    \/ ~StartsWithBearer(req.authorization)
    \/ ~verifyAccessToken(req.authorization.token).ok

ReferencesMetadata(header) ==
    /\ header.scheme = "Bearer"
    /\ Len(header.resource_metadata) > 0
    /\ header.resource_metadata[Len(header.resource_metadata)] =
           "/.well-known/oauth-protected-resource"

\* C6: a request to /mcp with no Authorization header, a header that is not
\* a Bearer header, or a bearer token that fails verification is answered
\* 401 and never reaches the MCP handler; the answer carries a
\* WWW-Authenticate header that references
\* /.well-known/oauth-protected-resource, or is an event stream when the
\* request asked for one.
C6_Challenge ==
    (last.op = "mcp" /\ Unauthenticated(last.body.request))
    => /\ last.status = 401
       /\ ~last.body.next
       /\ IF SseRequest(last.body.request)
          THEN last.body.content_type = "text/event-stream"
          ELSE ReferencesMetadata(last.body.www_authenticate)

HttpNonLoopback(uri) ==
    LET url == ParseUrl(uri)
    IN  /\ url.ok
        /\ url.protocol = HttpProtocol
        /\ url.hostname \notin {Localhost, Loopback}

AuthorizeAccepts(uri) ==
    (rand.authorize < MaxAuth /\ Authorize(UriRequest(uri)))
    => /\ last'.status = 302
       /\ Has(pendingAuthorizations', last'.key)
       /\ pendingAuthorizations'[last'.key].redirectUri = uri

AuthorizeRejects(uri) ==
    Authorize(UriRequest(uri))
    => /\ Rejected("invalid_request")
       /\ pendingAuthorizations' = pendingAuthorizations

RegisterAccepts(uri) ==
    Register(Array(<<StringItem(uri)>>))
    => last'.status = 200 /\ last'.body.redirect_uris = <<uri>>

RegisterRejects(uri) ==
    Register(Array(<<StringItem(uri)>>)) => last'.status = 400

\* C7: an authorize request whose redirect_uri has scheme http and a host
\* other than localhost and 127.0.0.1 is answered 400 invalid_request and
\* stores no pending authorization, and a registration of it is refused;
\* http://localhost:8888/cb and https://example.com/cb are accepted by both.
C7_HttpLoopbackOnly ==
    [][/\ \A uri \in Uris :
            HttpNonLoopback(uri) => AuthorizeRejects(uri) /\ RegisterRejects(uri)
       /\ \A uri \in {HttpLocalhost, HttpsExample} :
            AuthorizeAccepts(uri) /\ RegisterAccepts(uri)]_vars

\* C8: myapp://callback is accepted by authorize and by register; an
\* authorize request with ftp://x is answered 400 invalid_request and stores
\* no pending authorization.
C8_OtherSchemes ==
    [][/\ AuthorizeAccepts(MyApp)
       /\ RegisterAccepts(MyApp)
       /\ AuthorizeRejects(FtpX)]_vars

Embeds(accessToken, tokenData) ==
    /\ accessToken.sub = tokenData.userId
    /\ accessToken.spotify_access_token = tokenData.spotifyTokens.accessToken
    /\ accessToken.spotify_refresh_token = tokenData.spotifyTokens.refreshToken

\* C9: a refresh_token grant that names a record not past its expiry is taken
\* up and answered 200, at every time and however often the record was used,
\* without touching pending authorizations or codes; the bearer token it
\* returns carries the user id and the upstream access/refresh pair of the
\* record, and the refresh-token map is the same after the request.
C9_RefreshReusable ==
    [][/\ \A r \in KnownRefresh :
            (/\ Has(refreshTokens, r)
             /\ now <= refreshTokens[r].expiresAt
             /\ tasks = EmptyBag
             /\ Token(RefreshGrant(r)))
            => (/\ last'.status = 0
                /\ \E t \in BagToSet(tasks') :
                      /\ tasks' = Spawn(t)
                      /\ t.op = "refresh" /\ t.token = r
                      /\ Embeds(t.accessToken, refreshTokens[r])
                /\ UNCHANGED <<refreshTokens, pendingAuthorizations, authorizationCodes>>)
       /\ \A t \in BagToSet(tasks) :
            (t.op = "refresh" /\ TokenResume(t))
            => (/\ last'.status = 200
                /\ last'.body.access_token = t.accessToken
                /\ UNCHANGED <<refreshTokens, pendingAuthorizations, authorizationCodes>>)]_vars

\* a record answered 200 at a later time than the one it was stored at
C9_ReusedLater ==
    /\ last.op = "refresh_token"
    /\ last.status = 200
    /\ Has(refreshTokens, last.key)
    /\ Embeds(last.body.access_token, refreshTokens[last.key])
    /\ last.body.access_token.iat > refreshTokens[last.key].expiresAt - REFRESH_TOKEN_TIMEOUT

\* C10: a refresh_token grant that names an unknown token, or a record past
\* its 30 days, is answered 400 invalid_grant and takes nothing up; the map
\* after it is the map before it without the named record.
C10_RefreshRejected ==
    [][\A r \in KnownRefresh \cup {Unknown} :
          (/\ ~Has(refreshTokens, r) \/ now > refreshTokens[r].expiresAt
           /\ Token(RefreshGrant(r)))
          => (/\ Rejected("invalid_grant")
              /\ tasks' = tasks
              /\ refreshTokens' = Delete(refreshTokens, r))]_vars

\* an expired record has just been deleted while another record stays
C10_ExpiredDeleted ==
    /\ last.op = "refresh_token"
    /\ last.status = 400
    /\ last.error = "invalid_grant"
    /\ last.key \in KnownRefresh
    /\ ~Has(refreshTokens, last.key)
    /\ refreshTokens # EmptyMap

\* the steps of Authorize, Callback and Token, the last named by its grant_type
OAuthSteps == {"authorize", "callback", "authorization_code", "refresh_token", "password"}
RejectErrors == {"invalid_request", "unsupported_response_type", "unsupported_grant_type"}

\* C11: an authorize, callback or token request answered 400 with
\* invalid_request, unsupported_response_type or unsupported_grant_type
\* leaves the pending authorizations, the codes, the refresh-token records
\* and the auth store (map and current slot) as they were.
C11_RejectedLeavesState ==
    [][(/\ last'.op \in OAuthSteps
        /\ last'.status = 400
        /\ last'.error \in RejectErrors)
       => UNCHANGED <<pendingAuthorizations, authorizationCodes, refreshTokens,
                      authMap, currentAuthInfo>>]_vars

\* a request rejected while codes, refresh-token records and bound
\* credentials are all there
C11_RejectedWithState ==
    /\ last.status = 400
    /\ last.error \in RejectErrors
    /\ authorizationCodes # EmptyMap
    /\ refreshTokens # EmptyMap
    /\ authMap # <<>>
    /\ currentAuthInfo # None

\* C12: an authorize request whose code_challenge_method is not "S256"
\* (absent included) is answered 400 invalid_request: it stores no pending
\* authorization, sets no timer, is not redirected, and leaves the auth
\* store as it was.
C12_OnlyS256 ==
    [][\A req \in MethodRequests :
          Authorize(req)
          => (/\ Rejected("invalid_request")
              /\ UNCHANGED <<pendingAuthorizations, timers, authMap, currentAuthInfo>>)]_vars

C12_MethodRejected ==
    /\ last.op = "authorize"
    /\ last.status = 400
    /\ last.error = "invalid_request"
    /\ authMap # <<>>
    /\ currentAuthInfo # None

\* what the client sees of an answer of the middleware
Response(step) ==
    [status |-> step.status, error |-> step.error,
     content_type |-> step.body.content_type,
     www_authenticate |-> step.body.www_authenticate]

FailsVerification(req) ==
    /\ StartsWithBearer(req.authorization)
    /\ ~verifyAccessToken(req.authorization.token).ok

\* C13: at every time, two /mcp requests that differ only in the bearer
\* token, both tokens failing verification (expired, malformed, signed with
\* another key, of another audience or issuer), get the same status, headers
\* and body.
C13_NoReasonLeaked ==
    \A r1, r2 \in McpRequests :
        (/\ FailsVerification(r1)
         /\ FailsVerification(r2)
         /\ r2 = [r1 EXCEPT !.authorization.token = r2.authorization.token])
        => Response(authMiddleware(r1)) = Response(authMiddleware(r2))

\* an expired token of the active key has just been refused, at a time when
\* a malformed token and a token of another key are refused as well
C13_ExpiredAndForged ==
    /\ last.op = "mcp"
    /\ last.error = "invalid_token"
    /\ Presented.token \in BearerTokens
    /\ WellFormedJwt(Presented.token)
    /\ Presented.token.key = JWT_SECRET
    /\ Presented.token.exp <= now
    /\ \E other \in BearerTokens :
          /\ WellFormedJwt(other) /\ other.key # JWT_SECRET /\ other.exp > now
          /\ ~verifyAccessToken(other).ok
    /\ ~verifyAccessToken(Garbage).ok

\* an authenticated /mcp request that is not an initialize request and whose
\* session id is absent or names no registered transport
NoSession(req) ==
    /\ StartsWithBearer(req.authorization)
    /\ verifyAccessToken(req.authorization.token).ok
    /\ req.body_method # "initialize"
    /\ ~(req.session_id # 0 /\ Has(transports, req.session_id))

\* C14: an authenticated request that is not an initialize request and that
\* carries no session id, or one that names no registered session, is
\* answered 400; no transport is created and the session registry and the
\* credential bridge stay as they were.
C14_UnknownSessionRefused ==
    [][\A req \in SessionRequests :
          (NoSession(req) /\ McpSession(req))
          => (/\ last'.status = 400
              /\ UNCHANGED <<transports, authMap, currentAuthInfo, rand, tasks>>)]_vars

\* a request naming a session that was closed is refused while another
\* session is registered
C14_ClosedSessionRefused ==
    /\ last.op = "mcp"
    /\ last.status = 400
    /\ last.key \in KnownSessions
    /\ ~Has(transports, last.key)
    /\ transports # EmptyMap
    /\ currentAuthInfo # None

\* two registered sessions are bound to different users
DifferentUsersLive ==
    \E s1, s2 \in KnownSessions :
        /\ Has(transports, s1) /\ Has(transports, s2)
        /\ AuthInfoOf(transports[s1].auth).userId # AuthInfoOf(transports[s2].auth).userId

\* C15: while sessions of different users are live, a tool call handled for
\* session S calls the upstream API with the credentials the bridge holds
\* for S.
C15_SessionCredentials ==
    (/\ last.op = "tool"
     /\ last.body.upstream # NoUpstream
     /\ Has(transports, last.key)
     /\ DifferentUsersLive)
    => /\ last.body.upstream.access_token = getAuth(last.key).spotifyAccessToken
       /\ last.body.upstream.refresh_token = getAuth(last.key).spotifyRefreshToken

Times(calls, call) == Cardinality({i \in DOMAIN calls : calls[i] = call})

\* C16: a callback whose upstream code exchange or identity fetch fails is
\* answered with a 5xx server_error, creates no authorization code, and has
\* sent each upstream request at most once.
C16_UpstreamFailure ==
    [][\A t \in BagToSet(tasks), outcome \in UpstreamOutcomes \ {"ok"} :
          CallbackResume(t, outcome)
          => (/\ last'.status \in 500..599
              /\ last'.error = "server_error"
              /\ authorizationCodes' = authorizationCodes
              /\ rand'.code = rand.code
              /\ \A call \in {"token", "me"} : Times(last'.body.upstream, call) <= 1)]_vars

\* the identity fetch of a callback has just failed, after its exchange
C16_IdentityFetchFailed ==
    /\ last.op = "callback"
    /\ last.status = 500
    /\ last.body.upstream = <<"token", "me">>
    /\ Has(pendingAuthorizations, last.key)

\* the state of a callback is "<handle>:<nonce>..." for a stored pending
\* authorization <handle> whose upstream nonce is <nonce>
StateMatches(req) ==
    \E authKey \in DOMAIN pendingAuthorizations :
        LET prefix == combinedState(authKey, pendingAuthorizations[authKey].spotifyState)
        IN  \/ req.state = prefix
            \/ /\ Len(req.state) > Len(prefix)
               /\ SubSeq(req.state, 1, Len(prefix) + 1) = prefix \o <<Colon>>

\* C17: a callback is taken up, and so can issue an authorization code, only
\* if its state splits into the handle of a stored pending authorization and
\* that entry's upstream nonce; a callback with any other state is answered
\* 400 (invalid_request unless it reports an upstream error), sends nothing
\* upstream and creates no code; codes are created by taken-up callbacks only.
C17_StateChecked ==
    [][/\ \A req \in CallbackRequests :
             Callback(req)
             => /\ (tasks' # tasks \/ last'.status = 0) => StateMatches(req)
                /\ ~StateMatches(req)
                   => (/\ last'.status = 400
                       /\ req.error = Missing => last'.error = "invalid_request"
                       /\ last'.body.upstream = <<>>
                       /\ tasks' = tasks
                       /\ authorizationCodes' = authorizationCodes)
       /\ rand'.code # rand.code
          => \E t \in BagToSet(tasks) :
                /\ t.op = "callback"
                /\ tasks' = Finish(t)
                /\ last'.key = t.authKey]_vars

\* a callback naming the second stored handle (every callback that names it
\* carries a code) has just been refused: its nonce is not the stored one
C17_WrongNonceRefused ==
    /\ last.op = "callback"
    /\ last.status = 400
    /\ last.error = "invalid_request"
    /\ last.key = 4
    /\ Has(pendingAuthorizations, last.key)

RECURSIVE Sum(_, _)
Sum(f, S) ==
    IF S = {} THEN 0
    ELSE LET x == CHOOSE y \in S : TRUE IN f[x] + Sum(f, S \ {x})

\* the requests of key admitted at the times from, ..., from + windowMs - 1
AdmittedFrom(key, from) ==
    Sum(admitted[key],
        {t \in DOMAIN admitted[key] : from <= t /\ t < from + windowMs})

\* C18: for every client key, no more than 100 requests are admitted to the
\* handlers within any interval of 60 seconds.
C18_SlidingLimit ==
    \A key \in DOMAIN admitted :
        \A from \in DOMAIN admitted[key] : AdmittedFrom(key, from) <= maxRequests

\* C19: of the token-exchange handlers that name the same authorization
\* code, however they interleave, at most one answers 200 and at most one
\* stores a refresh-token record: no exchange of a code succeeds after
\* another exchange of it has succeeded.
C19_OneSuccess ==
    [][\A t \in BagToSet(tasks) :
          (t.op = "token" /\ t.code \in exchanged)
          => ~(/\ TokenResume(t)
               /\ last'.status = 200
               /\ Has(refreshTokens', t.refreshTokenId))]_vars

\* C20: an authorization_code exchange attempt that finds the named code
\* stored and unexpired removes it from the code store even when its verifier
\* does not match the stored challenge, so that a later attempt with the
\* right verifier finds no code.
C20_DeletesOnRead ==
    [][\A req \in TokenRequests :
          (/\ WellFormedCodeGrant(req)
           /\ Has(authorizationCodes, req.code)
           /\ ~(authorizationCodes[req.code].expiresAt < now)
           /\ S256(req.code_verifier) # authorizationCodes[req.code].codeChallenge
           /\ Token(req))
          => ~Has(authorizationCodes', req.code)]_vars

\* the handle a callback names
Handle(req) == Field(Split(req.state), 1)

\* C21: a callback that finds the pending entry named by its handle removes
\* the entry before it answers and before the upstream exchange: after the
\* step that looks the entry up, and after a callback that failed upstream,
\* the entry is absent.
C21_TakePending ==
    [][/\ \A req \in CallbackRequests :
             (/\ req.error = Missing
              /\ req.code # Missing
              /\ Has(pendingAuthorizations, Handle(req))
              /\ Callback(req))
             => ~Has(pendingAuthorizations', Handle(req))
       /\ (last'.op = "callback" /\ last'.status = 500)
          => ~Has(pendingAuthorizations', last'.key)]_vars

\* C22: at most one authorization code is issued for a pending handle,
\* however the callback handlers that carry its state interleave.  Here
\* only the issue of a code removes a pending entry and handles are never
\* reused, so a code issued for a handle whose entry is gone is a second
\* code for that handle.
C22_OneCodePerHandle ==
    [][\A t \in BagToSet(tasks) :
          (/\ t.op = "callback"
           /\ CallbackResume(t, "ok")
           /\ last'.status = 302
           /\ Has(authorizationCodes', last'.body.code))
          => Has(pendingAuthorizations, t.authKey)]_vars

\* C23: once a callback carrying an error parameter has been processed for
\* the authorization attempt with handle h, no callback issues an
\* authorization code for h.
C23_FailedIsTerminal ==
    [][(/\ last'.op = "callback"
        /\ last'.status = 302
        /\ rand'.code # rand.code)
       => last'.key \notin denied]_vars

\* C24: when an authorize request that passed validation is answered with
\* its redirect, the bridge holds no binding for any session and no current
\* credentials, and the transport registry is as it was.
C24_AuthorizeClearsBridge ==
    [][(last'.op = "authorize" /\ last'.status = 302)
       => (/\ authMap' = <<>>
           /\ \A sid \in 1..MaxSessions : AuthIndex(sid)' = {}
           /\ getCurrentAuth' = None
           /\ transports' = transports)]_vars

\* an authorize request has been redirected while a session is registered,
\* whose binding is gone
C24_ClearedWhileLive ==
    /\ last.op = "authorize"
    /\ last.status = 302
    /\ transports # EmptyMap
    /\ \A sid \in DOMAIN transports : getAuth(sid) = None

\* C25: after a validated authorize request, and as long as no consent
\* callback has completed, no delegated credentials are current: an
\* initialize request that presents a bearer token issued earlier does not
\* bring the credentials it embeds back.
C25_NoStaleCredentials ==
    (rand.authorize > 0 /\ rand.code = 0) => getCurrentAuth = None

\* C26: in every state of the bridge, credentials that are current are the
\* binding stored for a session that still has a binding; the current slot
\* never holds the credentials of a session that has been unbound.
C26_CurrentIsBound ==
    getCurrentAuth # None
    => \E i \in DOMAIN authMap : authMap[i].authInfo = getCurrentAuth

\* the sessions that were initialized and have been closed
ClosedSessions == {sid \in KnownSessions : ~Has(transports, sid)}

\* C27: the close of a session removes its transport from the registry and
\* its binding from the bridge, and from then on the bridge holds no binding
\* for that session id, whatever is handled afterwards.
C27_CloseUnbinds ==
    [][/\ last'.op = "close" => ~Has(transports', last'.key)
       /\ \A sid \in ClosedSessions' : AuthIndex(sid)' = {}]_vars

\* a session has been initialized after another one was closed
C27_InitializedAfterClose ==
    /\ last.op = "initialize"
    /\ ClosedSessions # {}
    /\ AuthIndex(last.key) # {}

\* the entries of the bridge that hold the current credentials
CurrentEntries == {i \in DOMAIN authMap : authMap[i].authInfo = getCurrentAuth}

\* C28: the update after a credential refresh replaces the current binding
\* in place and nothing else: where one session's binding holds the current
\* credentials, after the update that binding and the current slot hold the
\* new credentials and the binding of every other session is as it was.
C28_UpdateInPlace ==
    [][\A t \in BagToSet(tasks) :
          (/\ t.op = "tool" /\ t.stage = "refreshing"
           /\ Cardinality(CurrentEntries) = 1
           /\ ToolRefreshed(t, "ok"))
          => (/\ getCurrentAuth'.spotifyAccessToken =
                     SpotifyRefresh(t.spotifyRefreshToken).access_token
              /\ DOMAIN authMap' = DOMAIN authMap
              /\ \A i \in DOMAIN authMap :
                    IF i \in CurrentEntries
                    THEN authMap'[i].authInfo = getCurrentAuth'
                    ELSE authMap'[i] = authMap[i])]_vars

\* the user a delegated token was obtained for
ObtainedFor(token) ==
    CASE token \in {"at1", "at1-refreshed", "rt1"} -> "u1"
      [] token \in {"at2", "at2-refreshed", "rt2"} -> "u2"
      [] OTHER -> Missing

SameUser(authInfo) ==
    /\ ObtainedFor(authInfo.spotifyAccessToken) = authInfo.userId
    /\ ObtainedFor(authInfo.spotifyRefreshToken) = authInfo.userId

\* C29: in every state each binding of the bridge and the current slot hold
\* a user id together with an access and a refresh token obtained for that
\* user.
C29_NoCrossUserMixing ==
    /\ getCurrentAuth # None => SameUser(getCurrentAuth)
    /\ \A i \in DOMAIN authMap : SameUser(authMap[i].authInfo)

\* C30: when an authorize request is answered with the redirect to the
\* upstream provider, the pending entry its state names is stored; a
\* callback is taken up, and a code issued, only for a handle that an
\* earlier authorize request stored.
C30_StoreBeforeCallback ==
    [][/\ (last'.op = "authorize" /\ last'.status = 302)
          => /\ Has(pendingAuthorizations', last'.key)
             /\ Field(Split(last'.body.state), 1) = last'.key
             /\ Field(Split(last'.body.state), 2) =
                    pendingAuthorizations'[last'.key].spotifyState
       /\ (last'.op = "callback" /\ last'.status \in {0, 302})
          => last'.key \in KnownKeys
       /\ (last'.op = "callback" /\ last'.key \notin KnownKeys)
          => (last'.status = 400 /\ tasks' = tasks /\ rand'.code = rand.code)]_vars

\* a code has been issued for a stored handle
C30_IssuedForStoredHandle ==
    /\ last.op = "callback"
    /\ last.status = 302
    /\ last.key \in KnownKeys
    /\ Has(authorizationCodes, last.body.code)

\* map after has the entries of map before, but for the keys in K
SameExcept(after, before, K) ==
    /\ (DOMAIN after) \ K = (DOMAIN before) \ K
    /\ \A x \in (DOMAIN before) \ K : after[x] = before[x]

\* C31: a callback, a timeout, or a token request that concerns pending
\* handle h, code k or refresh token r changes no pending entry but h, no
\* code entry but the one it issues or k, and no refresh record but the one
\* it creates or r.
C31_AttemptsIndependent ==
    [][/\ last'.op \in {"callback", "timer"}
          => /\ SameExcept(pendingAuthorizations', pendingAuthorizations, {last'.key})
             /\ SameExcept(authorizationCodes', authorizationCodes,
                           IF last'.status = 302 THEN {last'.body.code} ELSE {})
             /\ refreshTokens' = refreshTokens
       /\ last'.op = "authorization_code"
          => /\ pendingAuthorizations' = pendingAuthorizations
             /\ SameExcept(authorizationCodes', authorizationCodes, {last'.key})
             /\ SameExcept(refreshTokens', refreshTokens,
                           IF last'.status = 200 THEN {last'.body.refresh_token}
                           ELSE {})
       /\ last'.op = "refresh_token"
          => /\ pendingAuthorizations' = pendingAuthorizations
             /\ authorizationCodes' = authorizationCodes
             /\ SameExcept(refreshTokens', refreshTokens, {last'.key})]_vars

\* a code has been exchanged while another code is stored
C31_ExchangedBesideOthers ==
    /\ last.op = "authorization_code"
    /\ last.status = 200
    /\ authorizationCodes # EmptyMap
    /\ Has(refreshTokens, last.body.refresh_token)

\* C32: every pending authorization is eventually removed from the pending
\* map, by the callback that completes it or by its expiry timer; no entry
\* stays forever.
C32_PendingEventuallyRemoved ==
    \A authKey \in {2 * i : i \in 1..MaxAuth} :
        Has(pendingAuthorizations, authKey) ~> ~Has(pendingAuthorizations, authKey)

\* the timer of an abandoned attempt has removed its entry
C32_AbandonedReclaimed ==
    /\ last.op = "timer"
    /\ last.key \in KnownKeys
    /\ ~Has(pendingAuthorizations, last.key)
    /\ rand.code = 0
    /\ tasks = EmptyBag

\* C33: for every user id u and delegated credential pair t, the bearer
\* token minted for (u, t) at some time up to now, verified before its
\* one-hour expiry with the key and issuer it was signed with, is accepted
\* and yields exactly u, t.accessToken and t.refreshToken.
C33_BearerRoundTrip ==
    \A u \in Users, accessToken \in {"at1", "at2"}, refreshToken \in {"rt1", "rt2", Missing},
       at \in IssueTimes :
        LET token == SignJWT(u, [accessToken |-> accessToken,
                                 refreshToken |-> refreshToken],
                             JWT_SECRET, OAUTH_ISSUER, at)
            verified == verifyAccessToken(token)
        IN  now < at + 60 * 60
            => /\ verified.ok
               /\ verified.auth.extra.userId = u
               /\ verified.auth.extra.spotifyAccessToken = accessToken
               /\ verified.auth.extra.spotifyRefreshToken = refreshToken

\* a token minted at time 0 has been verified at a later time within its hour
C33_VerifiedLater ==
    /\ last.op = "mcp"
    /\ last.body.next
    /\ now > 0
    /\ Presented.token.iat = 0
    /\ last.body.auth.extra.spotifyAccessToken = "at1"
    /\ last.body.auth.extra.spotifyRefreshToken = "rt1"

\* C34: a refresh-token record is created with the user id and the
\* delegated credential pair of the exchanged authorization code; no later
\* step, a bridge update after a downstream token refresh included, changes
\* them; a record leaves the store only when a refresh request names it
\* after its expiry.
C34_RecordFixed ==
    [][/\ \A r \in DOMAIN refreshTokens :
             IF r \in DOMAIN refreshTokens'
             THEN /\ refreshTokens'[r].userId = refreshTokens[r].userId
                  /\ refreshTokens'[r].spotifyTokens = refreshTokens[r].spotifyTokens
             ELSE /\ last'.op = "refresh_token"
                  /\ last'.key = r
                  /\ last'.status = 400
                  /\ refreshTokens[r].expiresAt < now
       /\ \A r \in (DOMAIN refreshTokens') \ DOMAIN refreshTokens :
             \E t \in BagToSet(tasks) :
                /\ t.op = "token"
                /\ tasks' = Finish(t)
                /\ refreshTokens'[r].userId = t.authCode.userId
                /\ refreshTokens'[r].spotifyTokens = t.authCode.spotifyTokens]_vars

\* the bridge has been updated after a downstream refresh while the record
\* of the same user keeps the credentials of its code, and the record has
\* served a refresh grant
C34_BridgeUpdatedRecordKept ==
    /\ last.op = "refresh_token"
    /\ last.status = 200
    /\ getCurrentAuth.spotifyAccessToken = "at1-refreshed"
    /\ refreshTokens[last.key].userId = "u1"
    /\ refreshTokens[last.key].spotifyTokens = [accessToken |-> "at1", refreshToken |-> "rt1"]

\* what the token endpoint does with an authorization_code request: its
\* answer or, when it goes on to sign, the code record and the bearer token
\* it will answer with, and the code store it leaves
ExchangeOutcome(req) ==
    LET res == TokenCheck(req)
    IN  [response |-> res,
         codes |-> CodesAfterLookup(req),
         grant |-> IF res = NoResponse
                   THEN [authCode |-> CodeTask(req).authCode,
                         accessToken |-> CodeTask(req).accessToken,
                         refreshTokenId |-> CodeTask(req).refreshTokenId]
                   ELSE NoBody]

\* C35: in every state, two authorization_code exchange requests that differ
\* only in their non-empty redirect_uri or client_id get the same outcome,
\* also when the values differ from those stored with the code.
C35_RedirectAndClientIgnored ==
    \A c \in KnownCodes \cup {Unknown}, v \in Verifiers,
       redirect_uri \in {HttpsCb, OtherCb}, client_id \in {CLIENT_ID, "other-client"} :
        ExchangeOutcome([CodeGrant(c, v) EXCEPT !.redirect_uri = redirect_uri,
                                               !.client_id = client_id])
        = ExchangeOutcome(CodeGrant(c, v))

\* an exchange whose redirect_uri and client_id are not those stored with
\* the code has been taken up and is at its signing step
C35_OtherValuesAccepted ==
    \E t \in BagToSet(tasks) :
        /\ t.op = "token"
        /\ t.redirect_uri # t.authCode.redirectUri
        /\ t.client_id # t.authCode.clientId

\* a step ends the invocation t with an error and calls nothing upstream
EndsInError(t) ==
    /\ tasks' = Finish(t)
    /\ last'.op = "tool"
    /\ last'.status = 200
    /\ last'.error # ""
    /\ last'.body.upstream = NoUpstream

\* C36: an invocation of handleAuthenticatedSpotifyRequest moves from its
\* first call of the action to at most one token refresh and from there to
\* at most one second call of the action, and never back: the action runs at
\* most twice and the refresh at most once.  When the refresh fails, or the
\* action fails after the refresh, the invocation ends with an error and
\* calls nothing further upstream.
C36_RetryOnce ==
    [][\A t \in BagToSet(tasks) :
          t.op = "tool"
          => /\ \/ t \in BagToSet(tasks')
                \/ tasks' = Finish(t) /\ last'.body.upstream = NoUpstream
                \/ \E next \in BagToSet(tasks') :
                      /\ tasks' = Finish(t) (+) SetToBag({next})
                      /\ next.op = "tool"
                      /\ <<t.stage, next.stage>> \in
                            {<<"calling", "refreshing">>, <<"refreshing", "retrying">>}
             /\ ToolRefreshed(t, "failed") => EndsInError(t)
             /\ \A outcome \in ToolOutcomes \ {"ok"} :
                   ToolRetried(t, outcome) => EndsInError(t)]_vars

\* the action has failed again after a refresh that succeeded
C36_FailedAfterRefresh ==
    /\ last.op = "tool"
    /\ last.error = "OAuth token refresh failed"
    /\ tasks = EmptyBag
    /\ getCurrentAuth.spotifyAccessToken \in {"at1-refreshed", "at2-refreshed"}

\* C37: an entry leaves the authorization code map only in a step of a token
\* request with grant_type authorization_code that names it, and an entry
\* leaves the refresh token map only in a step of a token request with
\* grant_type refresh_token that names it; the passing of time and the
\* expiry timers of pending authorizations remove nothing from these maps.
C37_OnlyNamedEntriesLeave ==
    [][/\ \A code \in DOMAIN authorizationCodes :
             ~Has(authorizationCodes', code)
             => last'.op = "authorization_code" /\ last'.key = code
       /\ \A token \in DOMAIN refreshTokens :
             ~Has(refreshTokens', token)
             => last'.op = "refresh_token" /\ last'.key = token]_vars

\* a code and a refresh token record are both past their expiresAt and both
\* still stored
C37_ExpiredStillStored ==
    /\ \E code \in DOMAIN authorizationCodes :
          now > authorizationCodes[code].expiresAt
    /\ \E token \in DOMAIN refreshTokens :
          now > refreshTokens[token].expiresAt
    /\ tasks = EmptyBag

\* the window a request of key arriving at time at is counted in, given the
\* stored entries: requestCounts.get(key), replaced when absent or past its
\* resetTime
WindowAt(counts, key, at) ==
    IF ~Has(counts, key) \/ at > counts[key].resetTime
    THEN [count |-> 0, resetTime |-> at + windowMs]
    ELSE counts[key]

\* C38: the stored count of a key never exceeds maxRequests; a request
\* answered 429 leaves the stored entries as they are; the entry of a key
\* starts over, at the count of the one request that arrived, only in a step
\* of a request of that key arriving after the stored resetTime; and the
\* periodic cleanup changes the window of no request that arrives after it,
\* whatever the key and the time of arrival.
C38_CounterInvariant ==
    [][/\ \A key \in DOMAIN requestCounts' : requestCounts'[key].count <= maxRequests
       /\ (last'.op = "rate" /\ last'.status = 429)
          => requestCounts' = requestCounts
       /\ \A key \in (DOMAIN requestCounts) \cap (DOMAIN requestCounts') :
             requestCounts'[key] \notin
                 {requestCounts[key],
                  [requestCounts[key] EXCEPT !.count = @ + 1]}
             => /\ last'.op = "rate"
                /\ last'.key = key
                /\ now > requestCounts[key].resetTime
                /\ requestCounts'[key] = [count |-> 1, resetTime |-> now + windowMs]
       /\ last'.op = "cleanup"
          => \A key \in DOMAIN requestCounts :
                \A at \in now..(now + windowMs + 1) :
                   WindowAt(requestCounts', key, at)
                      = WindowAt(requestCounts, key, at)]_vars

\* a request has been answered 429 at the full count of its window, after the
\* cleanup removed the entry of another key
C38_RefusedAfterCleanup ==
    /\ last.op = "rate"
    /\ last.status = 429
    /\ requestCounts[last.key].count = maxRequests
    /\ \E key \in DOMAIN admitted : ~Has(requestCounts, key)

====
